---- MODULE Spec2Model ----
(***************************************************************************)
(* portpick: suggestion of TCP ports that are neither reserved by a        *)
(* services registry nor listening on the host.                            *)
(*                                                                         *)
(* The module models                                                       *)
(*   - the search engine find_available_ports (src/src/lib.rs and the      *)
(*     private copy of src/src/main.rs),                                   *)
(*   - the registry parser parse_services_content,                         *)
(*   - the lsof adapter get_locally_used_ports,                            *)
(*   - the driver main() as a state machine over its control points.       *)
(*                                                                         *)
(* Texts are sequences of Unicode code points.  Ports are integers of      *)
(* the u16 range; the search works on the real tiers 1024..49151 and       *)
(* 49152..65535.                                                           *)
(*                                                                         *)
(* A `for x in a..=b { if c(x) { return f(x) } }` loop of the source is    *)
(* rendered as "the least x of a..b with c(x)", which is what the loop     *)
(* computes; the ranges are too long for a recursion per iteration.        *)
(***************************************************************************)
EXTENDS Integers, Sequences, FiniteSets, TLC

VARIABLES
    pc,               \* control point of the run
    cli,              \* the command line: the fields of struct Cli, whether --force was
                      \* passed, the order the arguments are typed in, and the tier
                      \* order a caller of the search would like
    content,          \* registry text last handed to parse_services_content
    registry_ports,   \* ports parsed from the registry source of this run
    local_ports,      \* ports collected from lsof in this run
    forbidden_ports,  \* the exclusion set (HashSet<u16>)
    available_ports,  \* result of find_available_ports (Vec<u16>)
    stdout,           \* the lines printed on the standard output, in order
    stderr,           \* the lines printed on the standard error, in order
    exit_code,        \* "running", "success" (0), "failure" (1) or "usage error" (2)
    trace,            \* sequence of collaborator calls made so far
    excl,             \* compact description of a large exclusion set (search harness)
    host              \* the host the run is on: what running lsof there answers

vars == <<pc, cli, content, registry_ports, local_ports, forbidden_ports,
          available_ports, stdout, stderr, exit_code, trace, excl, host>>

(***************************************************************************)
(* u16 arithmetic                                                          *)
(***************************************************************************)
U16_MAX == 65535

U16 == 0..U16_MAX

saturating_sub(a, b) == IF a >= b THEN a - b ELSE 0

\* `p_start + i` on u16: a release build wraps (a debug build would panic).
wrapping_add(a, b) == (a + b) % (U16_MAX + 1)

(***************************************************************************)
(* Text primitives of the standard library, on sequences of characters     *)
(*                                                                         *)
(* A character is its Unicode code point: 104 is "h", 9 the tab, 8490 the  *)
(* Kelvin sign U+212A.  The tables of Unicode properties list the          *)
(* characters above U+007F as ranges <<first, last>>.                      *)
(***************************************************************************)
\* c lies in one of the ranges
InRanges(c, table) == \E r \in table : r[1] <= c /\ c <= r[2]

\* char::is_whitespace, and \s of the regex crate: the characters of the
\* Unicode property White_Space (U+0009..U+000D, U+0020, U+0085, U+00A0,
\* U+1680, U+2000..U+200A, U+2028, U+2029, U+202F, U+205F, U+3000)
White_Space == (9..13) \cup {32, 133, 160, 5760} \cup (8192..8202)
                   \cup {8232, 8233, 8239, 8287, 12288}

\* the decimal digits (general category Nd) above U+007F
DecimalNumberRanges == {
    <<1632, 1641>>, <<1776, 1785>>, <<1984, 1993>>, <<2406, 2415>>,
    <<2534, 2543>>, <<2662, 2671>>, <<2790, 2799>>, <<2918, 2927>>,
    <<3046, 3055>>, <<3174, 3183>>, <<3302, 3311>>, <<3430, 3439>>,
    <<3558, 3567>>, <<3664, 3673>>, <<3792, 3801>>, <<3872, 3881>>,
    <<4160, 4169>>, <<4240, 4249>>, <<6112, 6121>>, <<6160, 6169>>,
    <<6470, 6479>>, <<6608, 6617>>, <<6784, 6793>>, <<6800, 6809>>,
    <<6992, 7001>>, <<7088, 7097>>, <<7232, 7241>>, <<7248, 7257>>,
    <<42528, 42537>>, <<43216, 43225>>, <<43264, 43273>>, <<43472, 43481>>,
    <<43504, 43513>>, <<43600, 43609>>, <<44016, 44025>>, <<65296, 65305>>,
    <<66720, 66729>>, <<68912, 68921>>, <<68928, 68937>>, <<69734, 69743>>,
    <<69872, 69881>>, <<69942, 69951>>, <<70096, 70105>>, <<70384, 70393>>,
    <<70736, 70745>>, <<70864, 70873>>, <<71248, 71257>>, <<71360, 71369>>,
    <<71376, 71395>>, <<71472, 71481>>, <<71904, 71913>>, <<72016, 72025>>,
    <<72688, 72697>>, <<72784, 72793>>, <<73040, 73049>>, <<73120, 73129>>,
    <<73552, 73561>>, <<90416, 90425>>, <<92768, 92777>>, <<92864, 92873>>,
    <<93008, 93017>>, <<93552, 93561>>, <<118000, 118009>>,
    <<120782, 120831>>, <<123200, 123209>>, <<123632, 123641>>,
    <<124144, 124153>>, <<124401, 124410>>, <<125264, 125273>>,
    <<130032, 130041>> }

\* the characters above U+007F that char::to_lowercase maps to one other
\* character, as runs <<first, last, step, delta>>: every step-th character
\* of first..last is mapped to itself plus delta
LowercaseRuns == {
    <<192, 214, 1, 32>>, <<216, 222, 1, 32>>, <<256, 302, 2, 1>>,
    <<306, 310, 2, 1>>, <<313, 327, 2, 1>>, <<330, 374, 2, 1>>,
    <<376, 376, 1, -121>>, <<377, 381, 2, 1>>, <<385, 385, 1, 210>>,
    <<386, 388, 2, 1>>, <<390, 390, 1, 206>>, <<391, 391, 1, 1>>,
    <<393, 394, 1, 205>>, <<395, 395, 1, 1>>, <<398, 398, 1, 79>>,
    <<399, 399, 1, 202>>, <<400, 400, 1, 203>>, <<401, 401, 1, 1>>,
    <<403, 403, 1, 205>>, <<404, 404, 1, 207>>, <<406, 406, 1, 211>>,
    <<407, 407, 1, 209>>, <<408, 408, 1, 1>>, <<412, 412, 1, 211>>,
    <<413, 413, 1, 213>>, <<415, 415, 1, 214>>, <<416, 420, 2, 1>>,
    <<422, 422, 1, 218>>, <<423, 423, 1, 1>>, <<425, 425, 1, 218>>,
    <<428, 428, 1, 1>>, <<430, 430, 1, 218>>, <<431, 431, 1, 1>>,
    <<433, 434, 1, 217>>, <<435, 437, 2, 1>>, <<439, 439, 1, 219>>,
    <<440, 440, 1, 1>>, <<444, 444, 1, 1>>, <<452, 452, 1, 2>>,
    <<453, 453, 1, 1>>, <<455, 455, 1, 2>>, <<456, 456, 1, 1>>,
    <<458, 458, 1, 2>>, <<459, 475, 2, 1>>, <<478, 494, 2, 1>>,
    <<497, 497, 1, 2>>, <<498, 500, 2, 1>>, <<502, 502, 1, -97>>,
    <<503, 503, 1, -56>>, <<504, 542, 2, 1>>, <<544, 544, 1, -130>>,
    <<546, 562, 2, 1>>, <<570, 570, 1, 10795>>, <<571, 571, 1, 1>>,
    <<573, 573, 1, -163>>, <<574, 574, 1, 10792>>, <<577, 577, 1, 1>>,
    <<579, 579, 1, -195>>, <<580, 580, 1, 69>>, <<581, 581, 1, 71>>,
    <<582, 590, 2, 1>>, <<880, 882, 2, 1>>, <<886, 886, 1, 1>>,
    <<895, 895, 1, 116>>, <<902, 902, 1, 38>>, <<904, 906, 1, 37>>,
    <<908, 908, 1, 64>>, <<910, 911, 1, 63>>, <<913, 929, 1, 32>>,
    <<931, 939, 1, 32>>, <<975, 975, 1, 8>>, <<984, 1006, 2, 1>>,
    <<1012, 1012, 1, -60>>, <<1015, 1015, 1, 1>>, <<1017, 1017, 1, -7>>,
    <<1018, 1018, 1, 1>>, <<1021, 1023, 1, -130>>, <<1024, 1039, 1, 80>>,
    <<1040, 1071, 1, 32>>, <<1120, 1152, 2, 1>>, <<1162, 1214, 2, 1>>,
    <<1216, 1216, 1, 15>>, <<1217, 1229, 2, 1>>, <<1232, 1326, 2, 1>>,
    <<1329, 1366, 1, 48>>, <<4256, 4293, 1, 7264>>, <<4295, 4295, 1, 7264>>,
    <<4301, 4301, 1, 7264>>, <<5024, 5103, 1, 38864>>, <<5104, 5109, 1, 8>>,
    <<7305, 7305, 1, 1>>, <<7312, 7354, 1, -3008>>, <<7357, 7359, 1, -3008>>,
    <<7680, 7828, 2, 1>>, <<7838, 7838, 1, -7615>>, <<7840, 7934, 2, 1>>,
    <<7944, 7951, 1, -8>>, <<7960, 7965, 1, -8>>, <<7976, 7983, 1, -8>>,
    <<7992, 7999, 1, -8>>, <<8008, 8013, 1, -8>>, <<8025, 8031, 2, -8>>,
    <<8040, 8047, 1, -8>>, <<8072, 8079, 1, -8>>, <<8088, 8095, 1, -8>>,
    <<8104, 8111, 1, -8>>, <<8120, 8121, 1, -8>>, <<8122, 8123, 1, -74>>,
    <<8124, 8124, 1, -9>>, <<8136, 8139, 1, -86>>, <<8140, 8140, 1, -9>>,
    <<8152, 8153, 1, -8>>, <<8154, 8155, 1, -100>>, <<8168, 8169, 1, -8>>,
    <<8170, 8171, 1, -112>>, <<8172, 8172, 1, -7>>, <<8184, 8185, 1, -128>>,
    <<8186, 8187, 1, -126>>, <<8188, 8188, 1, -9>>, <<8486, 8486, 1, -7517>>,
    <<8490, 8490, 1, -8383>>, <<8491, 8491, 1, -8262>>,
    <<8498, 8498, 1, 28>>, <<8544, 8559, 1, 16>>, <<8579, 8579, 1, 1>>,
    <<9398, 9423, 1, 26>>, <<11264, 11311, 1, 48>>, <<11360, 11360, 1, 1>>,
    <<11362, 11362, 1, -10743>>, <<11363, 11363, 1, -3814>>,
    <<11364, 11364, 1, -10727>>, <<11367, 11371, 2, 1>>,
    <<11373, 11373, 1, -10780>>, <<11374, 11374, 1, -10749>>,
    <<11375, 11375, 1, -10783>>, <<11376, 11376, 1, -10782>>,
    <<11378, 11378, 1, 1>>, <<11381, 11381, 1, 1>>,
    <<11390, 11391, 1, -10815>>, <<11392, 11490, 2, 1>>,
    <<11499, 11501, 2, 1>>, <<11506, 11506, 1, 1>>, <<42560, 42604, 2, 1>>,
    <<42624, 42650, 2, 1>>, <<42786, 42798, 2, 1>>, <<42802, 42862, 2, 1>>,
    <<42873, 42875, 2, 1>>, <<42877, 42877, 1, -35332>>,
    <<42878, 42886, 2, 1>>, <<42891, 42891, 1, 1>>,
    <<42893, 42893, 1, -42280>>, <<42896, 42898, 2, 1>>,
    <<42902, 42920, 2, 1>>, <<42922, 42922, 1, -42308>>,
    <<42923, 42923, 1, -42319>>, <<42924, 42924, 1, -42315>>,
    <<42925, 42925, 1, -42305>>, <<42926, 42926, 1, -42308>>,
    <<42928, 42928, 1, -42258>>, <<42929, 42929, 1, -42282>>,
    <<42930, 42930, 1, -42261>>, <<42931, 42931, 1, 928>>,
    <<42932, 42946, 2, 1>>, <<42948, 42948, 1, -48>>,
    <<42949, 42949, 1, -42307>>, <<42950, 42950, 1, -35384>>,
    <<42951, 42953, 2, 1>>, <<42955, 42955, 1, -42343>>,
    <<42956, 42970, 2, 1>>, <<42972, 42972, 1, -42561>>,
    <<42997, 42997, 1, 1>>, <<65313, 65338, 1, 32>>, <<66560, 66599, 1, 40>>,
    <<66736, 66771, 1, 40>>, <<66928, 66938, 1, 39>>,
    <<66940, 66954, 1, 39>>, <<66956, 66962, 1, 39>>,
    <<66964, 66965, 1, 39>>, <<68736, 68786, 1, 64>>,
    <<68944, 68965, 1, 32>>, <<71840, 71871, 1, 32>>,
    <<93760, 93791, 1, 32>>, <<93856, 93880, 1, 27>>,
    <<125184, 125217, 1, 34>> }

\* CAPITAL I WITH DOT ABOVE U+0130, the only character whose lower case is
\* two characters: "i" and COMBINING DOT ABOVE U+0307
I_DOT_ABOVE == 304
COMBINING_DOT_ABOVE == 775

\* KELVIN SIGN U+212A, whose lower case is "k"
KELVIN_SIGN == 8490

\* 'A'..='Z'
IsUpper(c) == c \in 65..90

\* the run of LowercaseRuns that maps c, if any
lowercase_runs_of(c) ==
    {r \in LowercaseRuns : r[1] <= c /\ c <= r[2] /\ (c - r[1]) % r[3] = 0}

\* char::to_lowercase: the lower case of one character taken alone (that of
\* the capital sigma U+03A3 is the small sigma U+03C3)
to_lower(c) ==
    IF c < 128 THEN (IF IsUpper(c) THEN <<c + 32>> ELSE <<c>>)
    ELSE IF c = I_DOT_ABOVE THEN <<105, COMBINING_DOT_ABOVE>>
    ELSE LET runs == lowercase_runs_of(c)
         IN  IF runs = {} THEN <<c>>
             ELSE <<c + (CHOOSE r \in runs : TRUE)[4]>>

\* variant: the comparison made case-sensitive
to_lowercase_eq_exact(s, literal) == s = literal

\* s.to_lowercase() == literal, for a literal of ASCII characters.  The lower
\* case of s is the lower case of its characters one after the other, so it
\* is the literal exactly when s has the literal's length and the lower case
\* of each character is the one character at its place in the literal.  The
\* lower case of a capital sigma is the small sigma or the final one by the
\* letters around it and that of U+0130 is two characters with U+0307: none
\* of these is an ASCII character, whatever form is taken.
to_lowercase_eq(s, literal) ==
    /\ Len(s) = Len(literal)
    /\ \A i \in 1..Len(s) : to_lower(s[i]) = <<literal[i]>>

\* str::split(pattern): the pieces between the separators, empty ones kept
RECURSIVE split(_, _)
split(s, seps) ==
    IF \E i \in 1..Len(s) : s[i] \in seps
    THEN LET i == CHOOSE j \in 1..Len(s) :
                     s[j] \in seps /\ \A h \in 1..(j - 1) : s[h] \notin seps
         IN  <<SubSeq(s, 1, i - 1)>> \o split(SubSeq(s, i + 1, Len(s)), seps)
    ELSE <<s>>

\* str::lines: split at "\n"; a line ended by "\n" loses one "\r" before it;
\* nothing follows a final "\n"
lines(text) ==
    LET pieces == split(text, {10})
        n == Len(pieces)
        kept == IF pieces[n] = << >> THEN n - 1 ELSE n
        strip_cr(l) == IF l # << >> /\ l[Len(l)] = 13
                       THEN SubSeq(l, 1, Len(l) - 1) ELSE l
    IN  [i \in 1..kept |-> IF i < n THEN strip_cr(pieces[i]) ELSE pieces[i]]

\* str::trim
trim(s) ==
    IF \A i \in 1..Len(s) : s[i] \in White_Space THEN << >>
    ELSE LET a == CHOOSE i \in 1..Len(s) :
                     s[i] \notin White_Space /\ \A h \in 1..(i - 1) : s[h] \in White_Space
             b == CHOOSE i \in 1..Len(s) :
                     s[i] \notin White_Space /\ \A h \in (i + 1)..Len(s) : s[h] \in White_Space
         IN  SubSeq(s, a, b)

\* str::split_whitespace: the non-empty pieces between whitespace
split_whitespace(s) ==
    LET NonEmpty(f) == f # << >>
    IN  SelectSeq(split(s, White_Space), NonEmpty)

\* the loop of u16::from_str over the digits: -1 for Err (a character that
\* is no digit, or a value above u16::MAX)
RECURSIVE from_str_digits(_, _, _)
from_str_digits(s, i, acc) ==
    IF i > Len(s) THEN acc
    ELSE IF s[i] \notin 48..57 THEN -1
    ELSE LET d == s[i] - 48
             r == acc * 10 + d
         IN  IF r > U16_MAX THEN -1 ELSE from_str_digits(s, i + 1, r)

\* u16::from_str: an empty string and a lone sign are errors, one leading
\* "+" is accepted, "-" is not
u16_from_str(s) ==
    IF s = << >> THEN -1
    ELSE IF s = <<43>> \/ s = <<45>> THEN -1
    ELSE IF s[1] = 43 THEN from_str_digits(s, 2, 0)
    ELSE from_str_digits(s, 1, 0)

(***************************************************************************)
(* parse_services_content of src/src/lib.rs                                *)
(***************************************************************************)
\* the body of `for line in content.lines()`: the set `ports` after the line
parse_line(ports, line) ==
    LET trimmed_line == trim(line)
    IN  IF trimmed_line = << >> \/ trimmed_line[1] = 35 THEN ports   \* starts_with('#')
        ELSE
        LET parts == split_whitespace(trimmed_line)
        IN  IF Len(parts) < 2 THEN ports
            \* == "unknown"
            ELSE IF to_lowercase_eq(parts[1], <<117, 110, 107, 110, 111, 119, 110>>) THEN ports
            ELSE
            LET port_protocol_pair == split(parts[2], {47})   \* split('/')
            IN  IF Len(port_protocol_pair) # 2 THEN ports
                \* != "tcp"
                ELSE IF ~to_lowercase_eq(port_protocol_pair[2], <<116, 99, 112>>) THEN ports
                ELSE LET port == u16_from_str(port_protocol_pair[1])
                     IN  IF port # -1 THEN ports \cup {port} ELSE ports

RECURSIVE parse_lines(_, _, _)
parse_lines(ls, i, ports) ==
    IF i > Len(ls) THEN ports
    ELSE parse_lines(ls, i + 1, parse_line(ports, ls[i]))

\* a line of output: the text as it stands in the source, the values of its
\* placeholders, the colour it is printed in (shown on a terminal only)
Line(text, args, color) == [text |-> text, args |-> args, color |-> color]

\* always Ok(ports), the function has no failing path; stdout holds the two
\* lines that `if verbose` prints
parse_services_content(services_content, source_description, verbose) ==
    LET ports == parse_lines(lines(services_content), 1, {})
    IN  [ports |-> ports,
         stdout |-> IF verbose
                    THEN << Line("Parsing services data from {}...",
                                 <<source_description>>, "cyan"),
                            Line("Found {} distinct TCP ports from {}.",
                                 <<Cardinality(ports), source_description>>, "cyan") >>
                    ELSE << >>]

(***************************************************************************)
(* parse_services_content of src/src/main.rs (the private copy)            *)
(***************************************************************************)
\* the body of `for line in content.lines()`: the set `ports` after the line
main_parse_line(ports, line) ==
    LET trimmed_line == trim(line)
    IN  IF trimmed_line = << >> \/ trimmed_line[1] = 35 THEN ports   \* starts_with('#')
        ELSE
        LET parts == split_whitespace(trimmed_line)
        IN  IF Len(parts) < 2 THEN ports
            \* == "unknown"
            ELSE IF to_lowercase_eq(parts[1], <<117, 110, 107, 110, 111, 119, 110>>) THEN ports
            ELSE
            LET port_protocol_pair == split(parts[2], {47})   \* split('/')
            IN  IF Len(port_protocol_pair) # 2 THEN ports
                \* != "tcp"
                ELSE IF ~to_lowercase_eq(port_protocol_pair[2], <<116, 99, 112>>) THEN ports
                ELSE LET port == u16_from_str(port_protocol_pair[1])
                     IN  IF port # -1 THEN ports \cup {port} ELSE ports

RECURSIVE main_parse_lines(_, _, _)
main_parse_lines(ls, i, ports) ==
    IF i > Len(ls) THEN ports
    ELSE main_parse_lines(ls, i + 1, main_parse_line(ports, ls[i]))

\* always Ok(ports), the function has no failing path; stdout holds the two
\* lines that `if verbose` prints
main_parse_services_content(services_content, source_description, verbose) ==
    LET ports == main_parse_lines(lines(services_content), 1, {})
    IN  [ports |-> ports,
         stdout |-> IF verbose
                    THEN << Line("Parsing services data from {}...",
                                 <<source_description>>, "cyan"),
                            Line("Found {} distinct TCP ports from {}.",
                                 <<Cardinality(ports), source_description>>, "cyan") >>
                    ELSE << >>]

(***************************************************************************)
(* get_locally_used_ports of src/src/main.rs                               *)
(***************************************************************************)
\* (LISTEN)
LISTEN_MARKER == <<40, 76, 73, 83, 84, 69, 78, 41>>

\* an ASCII digit
IsAsciiDigit(c) == c \in 48..57

\* \d of the regex crate: a decimal digit of any script
IsDigit(c) == IF c < 128 THEN IsAsciiDigit(c) ELSE InRanges(c, DecimalNumberRanges)

\* variant: a run of digits of any length captured, as by :(\d+)
lsof_port_capture_any_length(line) ==
    LET n == Len(line) - Len(LISTEN_MARKER)
    IN  IF n < 0 \/ SubSeq(line, n + 1, Len(line)) # LISTEN_MARKER THEN << >>
        ELSE IF \A i \in 1..n : line[i] \in White_Space THEN << >>
        ELSE LET e == CHOOSE i \in 1..n :
                         line[i] \notin White_Space /\ \A h \in (i + 1)..n : line[h] \in White_Space
             IN  IF ~IsDigit(line[e]) THEN << >>
                 ELSE LET b == CHOOSE i \in 1..e :
                                  /\ \A h \in i..e : IsDigit(line[h])
                                  /\ (i = 1 \/ ~IsDigit(line[i - 1]))
                      IN  IF b > 1 /\ line[b - 1] = 58
                          THEN SubSeq(line, b, e) ELSE << >>

\* LSOF_PORT_RE.captures(line).get(1), the regex :(\d{1,5})\s*\(LISTEN\)$ :
\* the line ends with the marker, before it any whitespace, before that a
\* run of 1 to 5 digits that a ':' precedes; << >> when there is no match
lsof_port_capture(line) ==
    LET n == Len(line) - Len(LISTEN_MARKER)
    IN  IF n < 0 \/ SubSeq(line, n + 1, Len(line)) # LISTEN_MARKER THEN << >>
        ELSE IF \A i \in 1..n : line[i] \in White_Space THEN << >>
        ELSE LET e == CHOOSE i \in 1..n :
                         line[i] \notin White_Space /\ \A h \in (i + 1)..n : line[h] \in White_Space
             IN  IF ~IsDigit(line[e]) THEN << >>
                 ELSE LET b == CHOOSE i \in 1..e :
                                  /\ \A h \in i..e : IsDigit(line[h])
                                  /\ (i = 1 \/ ~IsDigit(line[i - 1]))
                      IN  IF e - b + 1 <= 5 /\ b > 1 /\ line[b - 1] = 58
                          THEN SubSeq(line, b, e) ELSE << >>

\* the body of `for line in output_str.lines()`
lsof_line(ports, line) ==
    LET port_match == lsof_port_capture(line)
    IN  IF port_match = << >> THEN ports
        ELSE LET port == u16_from_str(port_match)
             IN  IF port # -1 THEN ports \cup {port} ELSE ports

RECURSIVE lsof_lines(_, _, _)
lsof_lines(ls, i, ports) ==
    IF i > Len(ls) THEN ports
    ELSE lsof_lines(ls, i + 1, lsof_line(ports, ls[i]))

\* what running lsof answers when it exits with status 0 and the given output
LsofOk(text) ==
    [status |-> "ok", text |-> text, exit_status |-> "exit status: 0",
     stderr |-> "", io_error |-> ""]

\* get_locally_used_ports, given what running lsof answers: an error when
\* lsof cannot be executed or exits with a non-zero status, else the ports of
\* its output; stdout holds the lines that `if verbose` prints.  An error is
\* the chain of its messages, the outermost first, each message the sequence
\* of its lines.
get_locally_used_ports(lsof, verbose) ==
    LET fetching == IF verbose
                    THEN <<Line("Fetching locally used TCP ports...", << >>, "cyan")>>
                    ELSE << >>
    IN  IF lsof.status = "not executed"
        THEN [ok |-> FALSE, ports |-> {}, stdout |-> fetching,
              error |-> << <<Line("Failed to execute lsof command. Make sure lsof is installed and in PATH.",
                                  << >>, "none")>>,
                           <<Line("{}", <<lsof.io_error>>, "none")>> >>]
        ELSE IF lsof.status # "ok"
        THEN [ok |-> FALSE, ports |-> {}, stdout |-> fetching,
              \* "lsof command failed with status: {}\nStderr: {}"
              error |-> << <<Line("lsof command failed with status: {}",
                                  <<lsof.exit_status>>, "none"),
                             Line("Stderr: {}", <<lsof.stderr>>, "none")>> >>]
        ELSE LET ports == lsof_lines(lines(lsof.text), 1, {})
             IN  [ok |-> TRUE, ports |-> ports, error |-> << >>,
                  stdout |-> fetching \o
                      (IF verbose
                       THEN <<Line("Found {} locally listening TCP ports.",
                                   <<Cardinality(ports)>>, "cyan")>>
                       ELSE << >>)]

(***************************************************************************)
(* The two tiers (port_ranges of find_available_ports)                     *)
(***************************************************************************)
TierAStart == 1024
TierAEnd == 49151
TierBStart == 49152
TierBEnd == 65535

TierA == TierAStart..TierAEnd
TierB == TierBStart..TierBEnd

\* variant: the dynamic tier tried first
port_ranges_dynamic_first == << <<TierBStart, TierBEnd>>, <<TierAStart, TierAEnd>> >>

port_ranges == << <<TierAStart, TierAEnd>>, <<TierBStart, TierBEnd>> >>

(***************************************************************************)
(* find_available_ports of src/src/lib.rs                                  *)
(***************************************************************************)
\* variant: the last window start taken one too low
effective_end_search_exclusive(end_range, num_ports) ==
    IF num_ports > 0 THEN saturating_sub(end_range, num_ports)
    ELSE end_range

\* variant: a wrapping subtraction in place of the saturating one
effective_end_search_wrapping(end_range, num_ports) ==
    IF num_ports > 0 THEN (end_range - (num_ports - 1)) % (U16_MAX + 1)
    ELSE end_range

\* let effective_end_search = if num_ports > 0 { end_range.saturating_sub(num_ports - 1) } else { end_range }
effective_end_search(end_range, num_ports) ==
    IF num_ports > 0 THEN saturating_sub(end_range, num_ports - 1)
    ELSE end_range

\* let current_port = p_start + i
current_port(p_start, i) == wrapping_add(p_start, i)

\* variant: only the first port of the block is looked up
block_available_first_port(forbidden, p_start, num_ports) ==
    wrapping_add(p_start, 0) \notin forbidden

\* the inner loop `for i in 0..num_ports`: block_available stays true iff
\* no current_port is forbidden
block_available(forbidden, p_start, num_ports) ==
    \A i \in 0..(num_ports - 1) : current_port(p_start, i) \notin forbidden

\* variant: the block returned one port short
current_block_short(p_start, num_ports) ==
    [i \in 1..(num_ports - 1) |-> wrapping_add(p_start, i - 1)]

\* current_block once the inner loop has pushed every port
current_block(p_start, num_ports) ==
    [i \in 1..num_ports |-> current_port(p_start, i - 1)]

\* the window starts `start_range..=effective_end_search` of one tier
window_starts(range, num_ports) ==
    range[1]..effective_end_search(range[2], num_ports)

\* `for p_start in start_range..=effective_end_search`: the first start whose
\* block is available, or -1 when the loop runs to its end
first_block_start(forbidden, range, num_ports) ==
    LET starts == window_starts(range, num_ports)
    IN  IF \E p \in starts : block_available(forbidden, p, num_ports)
        THEN CHOOSE p \in starts :
                /\ block_available(forbidden, p, num_ports)
                /\ \A q \in range[1]..(p - 1) : ~block_available(forbidden, q, num_ports)
        ELSE -1

\* the continuous branch: `for &(start_range, end_range) in &port_ranges`
\* from tier k on; falls through to the empty found_ports
RECURSIVE continuous_search(_, _, _)
continuous_search(forbidden, num_ports, k) ==
    IF k > Len(port_ranges) THEN << >>
    ELSE LET p == first_block_start(forbidden, port_ranges[k], num_ports)
         IN  IF p # -1 THEN current_block(p, num_ports)
             ELSE continuous_search(forbidden, num_ports, k + 1)

\* `for port in start_range..=end_range` of the non-continuous branch, resumed
\* at port `from`: pushes every port that is not forbidden and returns as
\* soon as found_ports.len() == num_ports (returned = TRUE)
RECURSIVE scan_range(_, _, _, _, _)
scan_range(forbidden, num_ports, found, from, end_range) ==
    IF \E port \in from..end_range : port \notin forbidden
    THEN LET port == CHOOSE q \in from..end_range :
                        /\ q \notin forbidden
                        /\ \A r \in from..(q - 1) : r \in forbidden
             pushed == Append(found, port)
         IN  IF Len(pushed) = num_ports
             THEN [found_ports |-> pushed, returned |-> TRUE]
             ELSE scan_range(forbidden, num_ports, pushed, port + 1, end_range)
    ELSE [found_ports |-> found, returned |-> FALSE]

\* variant: the scan stops after the first tier
non_continuous_search_first_tier(forbidden, num_ports, found, k) ==
    scan_range(forbidden, num_ports, found, port_ranges[1][1], port_ranges[1][2]).found_ports

\* the non-continuous branch over the tiers from tier k on, ending in the
\* final `found_ports`
RECURSIVE non_continuous_search(_, _, _, _)
non_continuous_search(forbidden, num_ports, found, k) ==
    IF k > Len(port_ranges) THEN found
    ELSE LET r == scan_range(forbidden, num_ports, found,
                             port_ranges[k][1], port_ranges[k][2])
         IN  IF r.returned THEN r.found_ports
             ELSE non_continuous_search(forbidden, num_ports, r.found_ports, k + 1)

find_available_ports(forbidden, num_ports, continuous) ==
    IF num_ports = 0 THEN << >>
    ELSE IF continuous THEN continuous_search(forbidden, num_ports, 1)
    ELSE non_continuous_search(forbidden, num_ports, << >>, 1)

(***************************************************************************)
(* The binary's private copies (src/src/main.rs) of the search engine      *)
(***************************************************************************)
main_port_ranges == << <<TierAStart, TierAEnd>>, <<TierBStart, TierBEnd>> >>

(***************************************************************************)
(* find_available_ports of src/src/main.rs                                  *)
(***************************************************************************)
\* variant: the copy's last window start taken one too low
main_effective_end_search_exclusive(end_range, num_ports) ==
    IF num_ports > 0 THEN saturating_sub(end_range, num_ports)
    ELSE end_range

\* let main_effective_end_search = if num_ports > 0 { end_range.saturating_sub(num_ports - 1) } else { end_range }
main_effective_end_search(end_range, num_ports) ==
    IF num_ports > 0 THEN saturating_sub(end_range, num_ports - 1)
    ELSE end_range

\* let main_current_port = p_start + i
main_current_port(p_start, i) == wrapping_add(p_start, i)

\* the inner loop `for i in 0..num_ports`: main_block_available stays true iff
\* no main_current_port is forbidden
main_block_available(forbidden, p_start, num_ports) ==
    \A i \in 0..(num_ports - 1) : main_current_port(p_start, i) \notin forbidden

\* variant: the block returned after its first port
main_current_block_first_port(p_start, num_ports) == <<wrapping_add(p_start, 0)>>

\* main_current_block once the inner loop has pushed every port
main_current_block(p_start, num_ports) ==
    [i \in 1..num_ports |-> main_current_port(p_start, i - 1)]

\* the window starts `start_range..=main_effective_end_search` of one tier
main_window_starts(range, num_ports) ==
    range[1]..main_effective_end_search(range[2], num_ports)

\* `for p_start in start_range..=main_effective_end_search`: the first start whose
\* block is available, or -1 when the loop runs to its end
main_first_block_start(forbidden, range, num_ports) ==
    LET starts == main_window_starts(range, num_ports)
    IN  IF \E p \in starts : main_block_available(forbidden, p, num_ports)
        THEN CHOOSE p \in starts :
                /\ main_block_available(forbidden, p, num_ports)
                /\ \A q \in range[1]..(p - 1) : ~main_block_available(forbidden, q, num_ports)
        ELSE -1

\* the continuous branch: `for &(start_range, end_range) in &main_port_ranges`
\* from tier k on; falls through to the empty found_ports
RECURSIVE main_continuous_search(_, _, _)
main_continuous_search(forbidden, num_ports, k) ==
    IF k > Len(main_port_ranges) THEN << >>
    ELSE LET p == main_first_block_start(forbidden, main_port_ranges[k], num_ports)
         IN  IF p # -1 THEN main_current_block(p, num_ports)
             ELSE main_continuous_search(forbidden, num_ports, k + 1)

\* `for port in start_range..=end_range` of the non-continuous branch, resumed
\* at port `from`: pushes every port that is not forbidden and returns as
\* soon as found_ports.len() == num_ports (returned = TRUE)
RECURSIVE main_scan_range(_, _, _, _, _)
main_scan_range(forbidden, num_ports, found, from, end_range) ==
    IF \E port \in from..end_range : port \notin forbidden
    THEN LET port == CHOOSE q \in from..end_range :
                        /\ q \notin forbidden
                        /\ \A r \in from..(q - 1) : r \in forbidden
             pushed == Append(found, port)
         IN  IF Len(pushed) = num_ports
             THEN [found_ports |-> pushed, returned |-> TRUE]
             ELSE main_scan_range(forbidden, num_ports, pushed, port + 1, end_range)
    ELSE [found_ports |-> found, returned |-> FALSE]

\* the non-continuous branch over the tiers from tier k on, ending in the
\* final `found_ports`
RECURSIVE main_non_continuous_search(_, _, _, _)
main_non_continuous_search(forbidden, num_ports, found, k) ==
    IF k > Len(main_port_ranges) THEN found
    ELSE LET r == main_scan_range(forbidden, num_ports, found,
                             main_port_ranges[k][1], main_port_ranges[k][2])
         IN  IF r.returned THEN r.found_ports
             ELSE main_non_continuous_search(forbidden, num_ports, r.found_ports, k + 1)

main_find_available_ports(forbidden, num_ports, continuous) ==
    IF num_ports = 0 THEN << >>
    ELSE IF continuous THEN main_continuous_search(forbidden, num_ports, 1)
    ELSE main_non_continuous_search(forbidden, num_ports, << >>, 1)

(***************************************************************************)
(* Harness of the search engine: the inputs of find_available_ports are    *)
(* drawn from bounded sets, the action applies the function.               *)
(*                                                                         *)
(* An exclusion set is described by an interval lo..hi of forbidden ports  *)
(* (empty when lo > hi) and a set of toggled ports: a toggled port of the  *)
(* interval is free, a toggled port outside it is forbidden.               *)
(***************************************************************************)
MaxToggles == 2
MaxCount == 3

ProbePorts == {TierAStart, TierAStart + 1, TierAStart + 3,
               TierAEnd - 1, TierAEnd, TierBStart,
               TierBEnd - 1, TierBEnd}

ToggleSets == {t \in SUBSET ProbePorts : Cardinality(t) <= MaxToggles}

\* exclusion sets of a few forbidden ports
LightSets == {[lo |-> 1, hi |-> 0, toggles |-> t] : t \in ToggleSets}

\* exclusion sets that forbid Tier A, both tiers, or all of Tier A but its
\* last three ports, less a few ports at the ends of the tiers
HeavyIntervals == { <<TierAStart, TierAEnd>>,
                    <<TierAStart, TierBEnd>>,
                    <<TierAStart, TierAEnd - 3>> }

HeavyToggles == { {},
                  {TierAStart},
                  {TierAEnd},
                  {TierAEnd - 1, TierAEnd},
                  {TierAEnd, TierBStart},
                  {TierBEnd - 1, TierBEnd} }

HeavySets == {[lo |-> b[1], hi |-> b[2], toggles |-> t] :
                 b \in HeavyIntervals, t \in HeavyToggles}

ExclusionSet(e) ==
    {p \in U16 : (e.lo <= p /\ p <= e.hi) # (p \in e.toggles)}

\* widths of the tiers, one more than each, and the largest u16
LargeCounts == {TierBEnd - TierBStart + 1, TierBEnd - TierBStart + 2,
                TierAEnd - TierAStart + 1, TierAEnd - TierAStart + 2, U16_MAX}

Counts == (0..MaxCount) \cup LargeCounts

NoHost == [lsof |-> LsofOk(<< >>)]

\* tier_b_first is the order a caller of the search would like; the function
\* has no parameter to take it
NoCli == [universal |-> FALSE, number_of_ports |-> 0, continuous |-> FALSE,
          docker_format |-> FALSE, verbose |-> FALSE, force |-> FALSE,
          typed |-> << >>, request |-> "run", tier_b_first |-> FALSE]

FindInit ==
    /\ pc = "find_call"
    /\ excl \in LightSets \cup HeavySets
    /\ \E n \in Counts, c \in BOOLEAN, b \in BOOLEAN :
           /\ cli = [NoCli EXCEPT !.number_of_ports = n, !.continuous = c,
                                  !.tier_b_first = b]
           \* the wish for Tier B first goes with the small counts and the
           \* exclusion sets of at most one forbidden port
           /\ b => /\ n \in 1..MaxCount
                   /\ excl.lo > excl.hi
                   /\ Cardinality(excl.toggles) <= 1
           \* the large counts go with the exclusion sets of at most one
           \* toggled port
           /\ n > MaxCount => Cardinality(excl.toggles) <= 1
           \* a non-continuous search for a large count returns every free
           \* port: kept to the exclusion sets that leave few ports free
           /\ (~c /\ n > MaxCount) => (excl.lo = TierAStart /\ excl.hi = TierBEnd)
    /\ content = << >>
    /\ registry_ports = {}
    /\ local_ports = {}
    /\ forbidden_ports = {}
    /\ available_ports = << >>
    /\ stdout = << >>
    /\ stderr = << >>
    /\ exit_code = "running"
    /\ trace = << >>
    /\ host = NoHost

FindCall ==
    /\ pc = "find_call"
    /\ available_ports' = find_available_ports(ExclusionSet(excl), cli.number_of_ports,
                                               cli.continuous)
    /\ pc' = "find_ret"
    /\ UNCHANGED <<cli, content, registry_ports, local_ports, forbidden_ports,
                   stdout, stderr, exit_code, trace, excl, host>>

FindNext == FindCall

SpecFind == FindInit /\ [][FindNext]_vars

(***************************************************************************)
(* Properties of find_available_ports (specification SpecFind)             *)
(***************************************************************************)
Returned == pc = "find_ret"

Excluded == ExclusionSet(excl)

ResultPorts == {available_ports[i] : i \in 1..Len(available_ports)}

\* number of ports of 1024..65535 outside the exclusion set, counted on its
\* description: the interval's part of the range, less the toggled ports it
\* frees, plus the range's ports outside the interval that stay free
FreeCount ==
    LET lo == IF excl.lo > TierAStart THEN excl.lo ELSE TierAStart
        hi == IF excl.hi < TierBEnd THEN excl.hi ELSE TierBEnd
        inInterval == IF lo <= hi THEN hi - lo + 1 ELSE 0
        freed == Cardinality({t \in excl.toggles : t \in lo..hi})
        taken == Cardinality({t \in excl.toggles :
                                t \in TierAStart..TierBEnd /\ t \notin lo..hi})
    IN  (TierBEnd - TierAStart + 1) - inInterval + freed - taken

\* C2: every port that find_available_ports returns lies in 1024..49151 or
\* in 49152..65535 and is not a member of the exclusion set, whatever the
\* exclusion set, the count and the contiguity flag.
C2_ResultInTiersAndFree ==
    Returned =>
        LET F == Excluded
        IN  \A i \in 1..Len(available_ports) :
                /\ \/ available_ports[i] \in 1024..49151
                   \/ available_ports[i] \in 49152..65535
                /\ available_ports[i] \notin F

C2_Witness ==
    /\ Returned
    /\ cli.continuous
    /\ Len(available_ports) = 3
    /\ excl.toggles # {}
    /\ available_ports[1] > TierAStart

\* C3: in non-continuous mode the result has min(desired_count, number of
\* free ports of 1024..65535) ports.
C3_NonContinuousLength ==
    (Returned /\ ~cli.continuous) =>
        Len(available_ports) =
            IF cli.number_of_ports <= FreeCount THEN cli.number_of_ports ELSE FreeCount

C3_Witness ==
    /\ Returned
    /\ ~cli.continuous
    /\ Len(available_ports) > 0
    /\ Len(available_ports) < cli.number_of_ports

\* C4: in non-continuous mode the result is strictly ascending and holds
\* exactly the k smallest free ports of 1024..65535 (k its length); a port of
\* Tier B is returned only when every free port of Tier A is returned too.
C4_NonContinuousSmallestFirst ==
    (Returned /\ ~cli.continuous) =>
        LET k == Len(available_ports)
            F == Excluded
            R == ResultPorts
        IN  /\ \A i \in 1..k :
                   /\ available_ports[i] \in TierAStart..TierBEnd
                   /\ available_ports[i] \notin F
            /\ \A i \in 1..(k - 1) : available_ports[i] < available_ports[i + 1]
            /\ k > 0 =>
                   \A p \in TierAStart..available_ports[k] : p \in F \/ p \in R
            /\ (\E i \in 1..k : available_ports[i] \in TierB) =>
                   \A p \in TierA : p \in F \/ p \in R

C4_Witness ==
    /\ Returned
    /\ ~cli.continuous
    /\ Len(available_ports) >= 2
    /\ available_ports[1] \in TierA
    /\ available_ports[Len(available_ports)] \in TierB

\* C5: in continuous mode the result is empty, or has exactly desired_count
\* ports with p[i+1] = p[i] + 1 for every adjacent pair.
C5_ContinuousAllOrNothing ==
    (Returned /\ cli.continuous) =>
        \/ available_ports = << >>
        \/ /\ Len(available_ports) = cli.number_of_ports
           /\ \A i \in 1..(Len(available_ports) - 1) :
                  available_ports[i + 1] = available_ports[i] + 1

C5_Witness ==
    /\ Returned
    /\ cli.continuous
    /\ cli.number_of_ports >= 2
    /\ Len(available_ports) = cli.number_of_ports
    /\ available_ports[1] > TierAStart

\* a window of n ports from p on that no port of F meets
WindowFree(F, p, n) == \A j \in p..(p + n - 1) : j \notin F

\* no window of n ports lying wholly inside lo..hi is free of F
NoFreeWindowIn(F, lo, hi, n) ==
    \A q \in lo..(hi - n + 1) : ~WindowFree(F, q, n)

\* C6: in continuous mode with desired_count n >= 1 the result is the free
\* window of n ports with the smallest start wholly inside Tier A; when
\* Tier A has none, the one with the smallest start wholly inside Tier B; it
\* is empty exactly when neither tier holds a free window.
C6_ContinuousFirstWindow ==
    (Returned /\ cli.continuous /\ cli.number_of_ports >= 1) =>
        LET n == cli.number_of_ports
            F == Excluded
        IN  IF available_ports = << >>
            THEN /\ NoFreeWindowIn(F, TierAStart, TierAEnd, n)
                 /\ NoFreeWindowIn(F, TierBStart, TierBEnd, n)
            ELSE LET p == available_ports[1]
                 IN  /\ Len(available_ports) = n
                     /\ \A i \in 1..n : available_ports[i] = p + i - 1
                     /\ WindowFree(F, p, n)
                     /\ \/ /\ TierAStart <= p /\ p + n - 1 <= TierAEnd
                           /\ NoFreeWindowIn(F, TierAStart, p + n - 2, n)
                        \/ /\ TierBStart <= p /\ p + n - 1 <= TierBEnd
                           /\ NoFreeWindowIn(F, TierAStart, TierAEnd, n)
                           /\ NoFreeWindowIn(F, TierBStart, p + n - 2, n)

\* a window that ends exactly at the last port of Tier A, found after every
\* earlier start failed
C6_Witness ==
    /\ Returned
    /\ cli.continuous
    /\ cli.number_of_ports >= 2
    /\ Len(available_ports) = cli.number_of_ports
    /\ available_ports[Len(available_ports)] = TierAEnd
    /\ available_ports[1] > TierAStart

\* C7: for desired_count in 1..65535 the continuous search has no window
\* start in a tier narrower than desired_count, the largest port it computes
\* (last window start + desired_count - 1, the sums growing with the start
\* and the offset) is at most 65535, and the result is empty when
\* desired_count exceeds the 48128 ports of Tier A.
C7_NoOverflow ==
    (cli.continuous /\ cli.number_of_ports >= 1) =>
        LET n == cli.number_of_ports
        IN  /\ \A k \in 1..Len(port_ranges) :
                   LET range == port_ranges[k]
                       starts == window_starts(range, n)
                       last == effective_end_search(range[2], n)
                   IN  /\ (range[2] - range[1] + 1 < n) => starts = {}
                       /\ starts # {} =>
                              /\ last + (n - 1) <= 65535
                              /\ last + (n - 1) <= range[2]
            /\ (Returned /\ n > 48128) => available_ports = << >>

C7_Witness ==
    /\ Returned
    /\ cli.continuous
    /\ cli.number_of_ports = TierBEnd - TierBStart + 2
    /\ Len(available_ports) = cli.number_of_ports
    /\ window_starts(port_ranges[2], cli.number_of_ports) = {}

(***************************************************************************)
(* Harness of the registry parser: the text is made of up to MaxLines      *)
(* lines of a pool, joined by "\n"; the action applies                     *)
(* parse_services_content and prints what it prints.                       *)
(***************************************************************************)
\* the descriptions the callers of parse_services_content pass
SourceDescriptions == {"fetched Nmap services list", "cached Nmap services list",
                       "system services file"}

MaxLines == 2

LinePool == {
    \* http<TAB>80/tcp
    <<104, 116, 116, 112, 9, 56, 48, 47, 116, 99, 112>>,
    \* ssh  22/tcp # Secure Shell
    <<115, 115, 104, 32, 32, 50, 50, 47, 116, 99, 112, 32, 35, 32, 83, 101, 99, 117, 114, 101, 32, 83, 104, 101, 108, 108>>,
    \*   dns 53/udp
    <<32, 32, 100, 110, 115, 32, 53, 51, 47, 117, 100, 112>>,
    \* unknown<TAB>1024/tcp
    <<117, 110, 107, 110, 111, 119, 110, 9, 49, 48, 50, 52, 47, 116, 99, 112>>,
    \* UnKnown 1025/tcp
    <<85, 110, 75, 110, 111, 119, 110, 32, 49, 48, 50, 53, 47, 116, 99, 112>>,
    \* # c 1026/tcp
    <<35, 32, 99, 32, 49, 48, 50, 54, 47, 116, 99, 112>>,
    \*  <TAB>#x 1027/tcp
    <<32, 9, 35, 120, 32, 49, 48, 50, 55, 47, 116, 99, 112>>,
    << >>,
    \*  <TAB> 
    <<32, 9, 32>>,
    \* solo
    <<115, 111, 108, 111>>,
    \* big 65536/tcp
    <<98, 105, 103, 32, 54, 53, 53, 51, 54, 47, 116, 99, 112>>,
    \* max 65535/TCP
    <<109, 97, 120, 32, 54, 53, 53, 51, 53, 47, 84, 67, 80>>,
    \* x 1028/tcp/y
    <<120, 32, 49, 48, 50, 56, 47, 116, 99, 112, 47, 121>>,
    \* x 1029
    <<120, 32, 49, 48, 50, 57>>,
    \* x /tcp
    <<120, 32, 47, 116, 99, 112>>,
    \* x +1030/tcp
    <<120, 32, 43, 49, 48, 51, 48, 47, 116, 99, 112>>,
    \* x 01031/tcp
    <<120, 32, 48, 49, 48, 51, 49, 47, 116, 99, 112>>,
    \* x -1/tcp
    <<120, 32, 45, 49, 47, 116, 99, 112>>,
    \* dup 80/tcp<CR>
    <<100, 117, 112, 32, 56, 48, 47, 116, 99, 112, 13>>,
    \* unknownx 1033/tcp
    <<117, 110, 107, 110, 111, 119, 110, 120, 32, 49, 48, 51, 51, 47, 116, 99, 112>>,
    \* x#y 1035/tcp
    <<120, 35, 121, 32, 49, 48, 51, 53, 47, 116, 99, 112>>,
    \* x<U+000B>81/tcp
    <<120, 11, 56, 49, 47, 116, 99, 112>>,
    \* <U+00A0>y<U+2003>82/tcp<U+0085>
    <<160, 121, 8195, 56, 50, 47, 116, 99, 112, 133>>,
    \* un<U+212A>nown 1036/tcp
    <<117, 110, 8490, 110, 111, 119, 110, 32, 49, 48, 51, 54, 47, 116, 99, 112>>,
    \* x <U+0663>/tcp
    <<120, 32, 1635, 47, 116, 99, 112>>,
    \* <U+03A3>a 1037/TcP
    <<931, 97, 32, 49, 48, 51, 55, 47, 84, 99, 80>>,
    \* s 1038/tc<U+03A3>
    <<115, 32, 49, 48, 51, 56, 47, 116, 99, 931>> }

RECURSIVE JoinLines(_)
JoinLines(ls) ==
    IF Len(ls) = 0 THEN << >>
    ELSE IF Len(ls) = 1 THEN ls[1]
    ELSE ls[1] \o <<10>> \o JoinLines(Tail(ls))

Texts == {JoinLines(ls) : ls \in UNION {[1..k -> LinePool] : k \in 0..MaxLines}}

ParseInit ==
    /\ pc = "parse_call"
    /\ content \in Texts
    /\ \E v \in BOOLEAN : cli = [NoCli EXCEPT !.verbose = v]
    /\ registry_ports = {}
    /\ local_ports = {}
    /\ forbidden_ports = {}
    /\ available_ports = << >>
    /\ stdout = << >>
    /\ stderr = << >>
    /\ exit_code = "running"
    /\ trace = << >>
    /\ excl = [lo |-> 1, hi |-> 0, toggles |-> {}]
    /\ \E d \in SourceDescriptions :
          /\ host = [lsof |-> NoHost.lsof, source_description |-> d]
          \* the description is only printed: the three of them go with the
          \* verbose calls on the texts of at most one line
          /\ d # "cached Nmap services list" =>
                 (cli.verbose /\ Len(lines(content)) <= 1)

ParseCall ==
    /\ pc = "parse_call"
    /\ LET parsed == parse_services_content(content, host.source_description,
                                            cli.verbose)
       IN  /\ registry_ports' = parsed.ports
           /\ stdout' = stdout \o parsed.stdout
    /\ pc' = "parse_ret"
    /\ UNCHANGED <<cli, content, local_ports, forbidden_ports, available_ports,
                   stderr, exit_code, trace, excl, host>>

ParseNext == ParseCall

SpecParse == ParseInit /\ [][ParseNext]_vars

(***************************************************************************)
(* Properties of parse_services_content (specification SpecParse)          *)
(***************************************************************************)
\* the fields of a line: its maximal runs of characters that are no
\* whitespace, as pairs <<first index, last index>>
FieldRuns(line) ==
    {r \in (1..Len(line)) \X (1..Len(line)) :
        /\ r[1] <= r[2]
        /\ \A i \in r[1]..r[2] : line[i] \notin White_Space
        /\ (r[1] = 1 \/ line[r[1] - 1] \in White_Space)
        /\ (r[2] = Len(line) \/ line[r[2] + 1] \in White_Space)}

\* field k of a line, counted from 0
FieldOf(line, k) ==
    LET runs == FieldRuns(line)
        r == CHOOSE x \in runs : Cardinality({y \in runs : y[1] < x[1]}) = k
    IN  SubSeq(line, r[1], r[2])

\* s equals the word, letter case ignored; the word is given by the forms
\* of each of its letters (the Kelvin sign is a capital form of "k")
SameIgnoringCase(s, word) ==
    /\ Len(s) = Len(word)
    /\ \A i \in 1..Len(s) : s[i] \in word[i]

WordUnknown == << {117, 85}, {110, 78}, {107, 75, KELVIN_SIGN}, {110, 78},
                  {111, 79}, {119, 87}, {110, 78} >>

WordTcp == << {116, 84}, {99, 67}, {112, 80} >>

\* the number a string of decimal digits denotes
RECURSIVE DecimalValue(_)
DecimalValue(ds) ==
    IF ds = << >> THEN 0
    ELSE 10 * DecimalValue(SubSeq(ds, 1, Len(ds) - 1))
            + (ds[Len(ds)] - 48)

\* the unsigned 16-bit integers a string parses as (none or one): decimal
\* digits, at least one, after at most one "+", denoting at most 65535
ParsesAsU16(s) ==
    LET ds == IF s # << >> /\ s[1] = 43 THEN SubSeq(s, 2, Len(s)) ELSE s
    IN  IF ds # << >> /\ (\A i \in 1..Len(ds) : IsAsciiDigit(ds[i])) /\ DecimalValue(ds) <= 65535
        THEN {DecimalValue(ds)} ELSE {}

\* the ports one line contributes according to the registry format
LineYields(line) ==
    LET runs == FieldRuns(line)
    IN  IF Cardinality(runs) < 2 THEN {}
        ELSE LET name == FieldOf(line, 0)
                 field1 == FieldOf(line, 1)
                 slashes == {i \in 1..Len(field1) : field1[i] = 47}
             IN  IF name[1] = 35 \/ SameIgnoringCase(name, WordUnknown)
                    \/ Cardinality(slashes) # 1
                 THEN {}
                 ELSE LET at == CHOOSE i \in slashes : TRUE
                      IN  IF SameIgnoringCase(SubSeq(field1, at + 1, Len(field1)), WordTcp)
                          THEN ParsesAsU16(SubSeq(field1, 1, at - 1))
                          ELSE {}

\* C8: parse_services_content returns exactly the ports p for which some
\* line of the text, once trimmed, is non-empty and no comment, has at least
\* two whitespace-separated fields, a field 0 other than "unknown" (case
\* ignored) and a field 1 of exactly two '/'-separated parts whose second is
\* "tcp" (case ignored) and whose first parses as the 16-bit unsigned p.
C8_ParseExactSet ==
    pc = "parse_ret" =>
        LET ls == lines(content)
        IN  registry_ports = UNION {LineYields(ls[i]) : i \in 1..Len(ls)}

\* a text with a line that is kept, a line skipped for its name and one
\* line more
C8_Witness ==
    /\ pc = "parse_ret"
    /\ Len(lines(content)) = 2
    /\ Cardinality(registry_ports) = 2
    /\ 65535 \in registry_ports

(***************************************************************************)
(* The driver main() of src/src/main.rs                                    *)
(*                                                                         *)
(* Control points: "start" (Cli::parse), "registry" (the source chosen by  *)
(* --universal), "save_cache", "read_system", "lsof", "search", "report",  *)
(* "exit".  The collaborators (HTTP fetch, file reads and writes, lsof)    *)
(* answer with an outcome drawn from a small set.                          *)
(*                                                                         *)
(* parse_services_content has no failing path, so the two `Err(e)` arms    *)
(* that follow a parse (main.rs 239 and 253-263) are never taken.          *)
(***************************************************************************)
SYSTEM_SERVICES_PATH == "/etc/services"
REMOTE_NMAP_SERVICES_URL == "https://svn.nmap.org/nmap/nmap-services"
LOCAL_NMAP_CACHE_PATH == "src/nmap-services.cache"

\* (49151 - 1024 + 1) + (65535 - 49152 + 1)
TOTAL_SEARCHABLE_PORTS == (TierAEnd - TierAStart + 1) + (TierBEnd - TierBStart + 1)

PORT_COLORS == {"red", "yellow", "green", "cyan", "blue", "magenta"}

\* registry texts a source may hold
RegistryTexts == {
    \* a 1024/tcp<LF>b<TAB>1026/tcp # x<LF>unknown 1027/tcp<LF>
    <<97, 32, 49, 48, 50, 52, 47, 116, 99, 112, 10, 98, 9, 49, 48, 50, 54, 47, 116, 99, 112, 32, 35, 32, 120, 10, 117, 110, 107, 110, 111, 119, 110, 32, 49, 48, 50, 55, 47, 116, 99, 112, 10>>,
    \* http 80/tcp<LF>c 1025/TCP<LF>d 1028/udp
    <<104, 116, 116, 112, 32, 56, 48, 47, 116, 99, 112, 10, 99, 32, 49, 48, 50, 53, 47, 84, 67, 80, 10, 100, 32, 49, 48, 50, 56, 47, 117, 100, 112>>,
    << >> }

\* texts lsof may print
LsofOutputs == {
    \* C P<LF>n 1 TCP *:1025 (LISTEN)<LF>n 2 TCP [::1]:1029 (LISTEN)<LF>
    <<67, 32, 80, 10, 110, 32, 49, 32, 84, 67, 80, 32, 42, 58, 49, 48, 50, 53, 32, 40, 76, 73, 83, 84, 69, 78, 41, 10, 110, 32, 50, 32, 84, 67, 80, 32, 91, 58, 58, 49, 93, 58, 49, 48, 50, 57, 32, 40, 76, 73, 83, 84, 69, 78, 41, 10>>,
    \* n 3 TCP 127.0.0.1:1024 (LISTEN)<LF>n 4 TCP *:99999 (LISTEN)<LF>n 5 TCP *:80->*:1030 (ESTABLISHED)<LF>
    <<110, 32, 51, 32, 84, 67, 80, 32, 49, 50, 55, 46, 48, 46, 48, 46, 49, 58, 49, 48, 50, 52, 32, 40, 76, 73, 83, 84, 69, 78, 41, 10, 110, 32, 52, 32, 84, 67, 80, 32, 42, 58, 57, 57, 57, 57, 57, 32, 40, 76, 73, 83, 84, 69, 78, 41, 10, 110, 32, 53, 32, 84, 67, 80, 32, 42, 58, 56, 48, 45, 62, 42, 58, 49, 48, 51, 48, 32, 40, 69, 83, 84, 65, 66, 76, 73, 83, 72, 69, 68, 41, 10>>,
    << >> }

\* variant: the set assigned in place of extended
extend_replacing(set, ports) == ports

\* forbidden_ports.extend(ports)
extend(set, ports) == set \cup ports

\* what a read of a file answers: Ok(text) or Err
ReadOutcomes ==
    {[ok |-> TRUE, text |-> t] : t \in RegistryTexts} \cup {[ok |-> FALSE, text |-> << >>]}

\* what the remote server answers: the text, a status that is no success,
\* or a failure of reqwest with the report of its error
FetchOutcomes ==
    {[status |-> "ok", text |-> t, http_status |-> "200 OK", error |-> ""] :
         t \in RegistryTexts}
        \cup {[status |-> "status not success", text |-> << >>,
               http_status |-> "404 Not Found", error |-> ""],
              [status |-> "client not built", text |-> << >>,
               http_status |-> "", error |-> "builder error"],
              [status |-> "request not sent", text |-> << >>,
               http_status |-> "", error |-> "error sending request"],
              [status |-> "text not read", text |-> << >>,
               http_status |-> "200 OK", error |-> "error decoding response body"]}

\* what running lsof answers: its output with exit status 0, a non-zero
\* exit status with what it wrote on its standard error, or a failure to
\* execute it with the error of the operating system
LsofOutcomes ==
    {LsofOk(t) : t \in LsofOutputs}
        \cup {[status |-> "non-zero status", text |-> << >>,
               exit_status |-> "exit status: 1", stderr |-> "lsof: status error",
               io_error |-> ""],
              [status |-> "not executed", text |-> << >>,
               exit_status |-> "", stderr |-> "",
               io_error |-> "No such file or directory (os error 2)"]}

\* what the command line asks for besides a run: the help, the version, or a
\* value of --number-of-ports that is no u16 ("abc")
Requests == {"run", "--help", "--version", "invalid value"}

\* the lines of the messages of an error chain from message k on
RECURSIVE ChainLines(_, _)
ChainLines(chain, k) ==
    IF k > Len(chain) THEN << >> ELSE chain[k] \o ChainLines(chain, k + 1)

\* what anyhow writes before the lines of cause k of a chain of several
NumberedIndent == <<"    0: ", "    1: ", "    2: ">>

\* the lines under "Caused by:": the lines of a single cause are indented by
\* four spaces; the causes of a longer chain are numbered from 0 and their
\* further lines indented by seven spaces
RECURSIVE CausedBy(_, _)
CausedBy(chain, k) ==
    IF k > Len(chain) THEN << >>
    ELSE [i \in 1..Len(chain[k]) |->
             [text |-> chain[k][i].text, args |-> chain[k][i].args, color |-> "none",
              indent |-> IF Len(chain) = 1 THEN "    "
                         ELSE IF i = 1 THEN NumberedIndent[k] ELSE "       "]]
         \o CausedBy(chain, k + 1)

\* the report of an Err returned by main ("Error: {:?}" of an anyhow error):
\* the context, then the chain of what caused it
ErrorReport(context, chain) ==
    <<Line("Error: {}", <<context>>, "none")>>
        \o (IF chain = << >> THEN << >>
            ELSE <<Line("", << >>, "none"), Line("Caused by:", << >>, "none")>>
                    \o CausedBy(chain, 1))

\* fetch_remote_nmap_services
fetch_remote_nmap_services(remote, verbose) ==
    LET printed == IF verbose
                   THEN <<Line("Fetching Nmap services data from: {}",
                               <<REMOTE_NMAP_SERVICES_URL>>, "cyan")>>
                   ELSE << >>
        failed(context) == << <<Line(context, << >>, "none")>>,
                              <<Line("{}", <<remote.error>>, "none")>> >>
    IN  [ok |-> remote.status = "ok",
         text |-> remote.text,
         stdout |-> printed,
         error |-> IF remote.status = "client not built"
                       THEN failed("Failed to build reqwest client")
                   ELSE IF remote.status = "request not sent"
                       THEN failed("Failed to send request to nmap-services URL")
                   ELSE IF remote.status = "status not success"
                       THEN << <<Line("Failed to download nmap-services file. Status: {}",
                                      <<remote.http_status>>, "none")>> >>
                   ELSE IF remote.status = "text not read"
                       THEN failed("Failed to read response text from nmap-services URL")
                   ELSE << >>]

\* save_nmap_cache
save_nmap_cache(written, verbose) ==
    [ok |-> written,
     stdout |-> IF verbose
                THEN <<Line("Caching Nmap services data to: {}",
                            <<LOCAL_NMAP_CACHE_PATH>>, "cyan")>>
                ELSE << >>,
     error |-> IF written THEN "" ELSE "Failed to write Nmap services cache to '{}'"]

\* read_system_services_ports
read_system_services_ports(file, verbose) ==
    LET printed == IF verbose
                   THEN <<Line("Reading port data from system services file: {}",
                               <<SYSTEM_SERVICES_PATH>>, "cyan")>>
                   ELSE << >>
    IN  IF ~file.ok
        THEN [ok |-> FALSE, ports |-> {}, stdout |-> printed,
              error |-> "Failed to read system services file at '{}'"]
        ELSE LET parsed == main_parse_services_content(file.text, "system services file", verbose)
             IN  [ok |-> TRUE, ports |-> parsed.ports,
                  stdout |-> printed \o parsed.stdout, error |-> ""]

PortLine(port, color) ==
    [text |-> IF cli.docker_format THEN "{}:" ELSE "- {}", port |-> port, color |-> color]

\* the arguments of a command line: the fields of struct Cli, and --force,
\* which it has not
Arguments ==
    {"universal", "number_of_ports", "continuous", "docker_format", "verbose", "force"}

\* the arguments of struct Cli as clap names them
ArgumentNames ==
    [universal |-> "--universal",
     number_of_ports |-> "--number-of-ports <NUMBER_OF_PORTS>",
     continuous |-> "--continuous",
     docker_format |-> "--docker-format",
     verbose |-> "--verbose"]

\* the orders in which the arguments of S can be typed, each once
RECURSIVE Orders(_)
Orders(S) ==
    IF S = {} THEN {<< >>}
    ELSE UNION {{<<a>> \o t : t \in Orders(S \ {a})} : a \in S}

Init ==
    /\ pc = "start"
    /\ \E u \in BOOLEAN, n \in (0..MaxCount) \cup {U16_MAX}, c \in BOOLEAN,
          d \in BOOLEAN, v \in BOOLEAN, f \in BOOLEAN, r \in Requests,
          g \in BOOLEAN :
          \* g: --number-of-ports is on the command line; the default is 1
          /\ ~g => n = 1
          \* a non-continuous search for 65535 ports returns every free port
          \* of both tiers: the large count is kept to continuous runs
          /\ n > MaxCount => c
          \* the help, the version and the invalid value are asked for alone
          /\ r # "run" => (~u /\ ~g /\ ~c /\ ~d /\ ~v /\ ~f)
          \* the arguments are typed in any order, each once
          /\ \E t \in Orders({a \in Arguments :
                                \/ a = "universal" /\ u
                                \/ a = "number_of_ports" /\ g
                                \/ a = "continuous" /\ c
                                \/ a = "docker_format" /\ d
                                \/ a = "verbose" /\ v
                                \/ a = "force" /\ f}) :
                cli = [universal |-> u, number_of_ports |-> n, continuous |-> c,
                       docker_format |-> d, verbose |-> v, force |-> f,
                       typed |-> t, request |-> r, tier_b_first |-> FALSE]
    /\ content = << >>
    /\ registry_ports = {}
    /\ local_ports = {}
    /\ forbidden_ports = {}
    /\ available_ports = << >>
    /\ stdout = << >>
    /\ stderr = << >>
    /\ exit_code = "running"
    /\ trace = << >>
    /\ excl = [lo |-> 1, hi |-> 0, toggles |-> {}]
    /\ host \in [lsof : LsofOutcomes]

\* the help clap derives from struct Cli and its doc comments
HelpText ==
    [i \in 1..17 |->
        Line(<< "Usage: portpick [OPTIONS]",
                "",
                "Options:",
                "  -u, --universal",
                "          Use the universal Nmap services list (fetches from internet, updates local cache)",
                "  -n, --number-of-ports <NUMBER_OF_PORTS>",
                "          Number of ports to find [default: 1]",
                "  -c, --continuous",
                "          Require the found ports to be a continuous block",
                "  -d, --docker-format",
                "          Output ports in Docker-compose format (e.g., 8080:)",
                "  -v, --verbose",
                "          Enable verbose output",
                "  -h, --help",
                "          Print help",
                "  -V, --version",
                "          Print version" >>[i], << >>, "none")]

\* the arguments clap has matched when it meets --force, those typed before
\* it, in the order typed and as the usage line of its error names them
UsedArguments ==
    LET at == CHOOSE i \in 1..Len(cli.typed) : cli.typed[i] = "force"
    IN  [i \in 1..(at - 1) |-> ArgumentNames[cli.typed[i]]]

\* the usage line of the error: the options in general when no argument has
\* been matched, the matched arguments otherwise
UsageText == <<"Usage: portpick {}", "Usage: portpick {} {}", "Usage: portpick {} {} {}",
               "Usage: portpick {} {} {} {}", "Usage: portpick {} {} {} {} {}">>

UsageLine ==
    IF UsedArguments = << >> THEN Line("Usage: portpick [OPTIONS]", << >>, "none")
    ELSE Line(UsageText[Len(UsedArguments)], UsedArguments, "none")

\* the last lines of an error of clap
MoreInformation ==
    <<Line("", << >>, "none"), Line("For more information, try '--help'.", << >>, "none")>>

\* Cli::parse(): struct Cli has the flags universal, number_of_ports,
\* continuous, docker_format and verbose, and clap adds --help and --version:
\* these print to the standard output and end the process with status 0; an
\* argument clap does not know (--force) and a value of --number-of-ports
\* that is no u16 end it with a usage error (status 2)
ParseArgs ==
    /\ pc = "start"
    /\ IF cli.request = "--help"
       THEN /\ stdout' = stdout \o HelpText
            /\ exit_code' = "success"
            /\ pc' = "exit"
            /\ UNCHANGED stderr
       ELSE IF cli.request = "--version"
       THEN /\ stdout' = Append(stdout, Line("portpick {}", <<"CARGO_PKG_VERSION">>, "none"))
            /\ exit_code' = "success"
            /\ pc' = "exit"
            /\ UNCHANGED stderr
       ELSE IF cli.request = "invalid value"
       THEN /\ stderr' = stderr
                   \o <<Line("error: invalid value '{}' for '--number-of-ports <NUMBER_OF_PORTS>': {}",
                             <<"abc", "invalid digit found in string">>, "none")>>
                   \o MoreInformation
            /\ exit_code' = "usage error"
            /\ pc' = "exit"
            /\ UNCHANGED stdout
       ELSE IF cli.force
       THEN /\ stderr' = stderr
                   \o <<Line("error: unexpected argument '{}' found", <<"--force">>, "none"),
                        Line("", << >>, "none"),
                        UsageLine>>
                   \o MoreInformation
            /\ exit_code' = "usage error"
            /\ pc' = "exit"
            /\ UNCHANGED stdout
       ELSE /\ pc' = "registry"
            /\ UNCHANGED <<stdout, stderr, exit_code>>
    /\ UNCHANGED <<cli, content, registry_ports, local_ports, forbidden_ports,
                   available_ports, trace, excl, host>>

\* if cli.universal: fetch_remote_nmap_services; a failure returns the error
FetchRemoteNmap ==
    /\ pc = "registry"
    /\ cli.universal
    /\ trace' = Append(trace, "fetch_remote_nmap_services")
    /\ \E remote \in FetchOutcomes :
          LET fetched == fetch_remote_nmap_services(remote, cli.verbose)
              announced == IF cli.verbose
                           THEN <<Line("Universal Nmap services flag set. Attempting to fetch, cache, and parse Nmap services list from {}...",
                                       <<REMOTE_NMAP_SERVICES_URL>>, "cyan")>>
                           ELSE << >>
          IN  /\ stdout' = stdout \o announced \o fetched.stdout
              /\ IF ~fetched.ok
                 THEN /\ stderr' = stderr \o
                             ErrorReport("Failed to fetch remote Nmap services as requested by --universal flag.",
                                         fetched.error)
                      /\ exit_code' = "failure"
                      /\ pc' = "exit"
                      /\ UNCHANGED content
                 ELSE /\ content' = fetched.text
                      /\ pc' = "save_cache"
                      /\ UNCHANGED <<stderr, exit_code>>
    /\ UNCHANGED <<cli, registry_ports, local_ports, forbidden_ports,
                   available_ports, excl, host>>

\* save_nmap_cache (a failure only warns), then the fetched content is parsed
\* and added to forbidden_ports
SaveNmapCache ==
    /\ pc = "save_cache"
    /\ trace' = Append(trace, "save_nmap_cache")
    /\ LET parsed == main_parse_services_content(content, "fetched Nmap services list",
                                                 cli.verbose)
       IN  /\ \E written \in BOOLEAN :
                 LET saved == save_nmap_cache(written, cli.verbose)
                 IN  /\ stderr' = IF saved.ok THEN stderr
                                  ELSE Append(stderr,
                                           Line("Warning: Failed to save fetched Nmap services to cache at {}: {}",
                                                <<LOCAL_NMAP_CACHE_PATH, saved.error>>, "yellow"))
                     /\ stdout' = stdout \o saved.stdout
                            \o (IF saved.ok /\ cli.verbose
                                THEN <<Line("Successfully cached Nmap services to {}",
                                            <<LOCAL_NMAP_CACHE_PATH>>, "green")>>
                                ELSE << >>)
                            \o parsed.stdout
           /\ registry_ports' = parsed.ports
           /\ forbidden_ports' = extend(forbidden_ports, parsed.ports)
    /\ pc' = "lsof"
    /\ UNCHANGED <<cli, content, local_ports, available_ports, exit_code, excl, host>>

\* variant: the system services file read after a readable cache as well
ReadCacheThenSystem ==
    /\ pc = "registry"
    /\ ~cli.universal
    /\ trace' = Append(trace, "read_cache")
    /\ \E outcome \in ReadOutcomes :
          IF ~outcome.ok
          THEN UNCHANGED <<content, registry_ports, forbidden_ports, stdout>>
          ELSE LET parsed == main_parse_services_content(outcome.text,
                                 "cached Nmap services list", cli.verbose)
               IN  /\ content' = outcome.text
                   /\ registry_ports' = parsed.ports
                   /\ forbidden_ports' = extend(forbidden_ports, parsed.ports)
                   /\ stdout' = stdout \o parsed.stdout
    /\ pc' = "read_system"
    /\ UNCHANGED <<cli, local_ports, available_ports, stderr, exit_code, excl, host>>

\* default: fs::read_to_string(LOCAL_NMAP_CACHE_PATH); the cached content is
\* parsed and added, an unreadable cache leads to the system services file
ReadCache ==
    /\ pc = "registry"
    /\ ~cli.universal
    /\ trace' = Append(trace, "read_cache")
    /\ \E outcome \in ReadOutcomes :
          IF ~outcome.ok
          THEN /\ stdout' = stdout \o
                      (IF cli.verbose
                       THEN <<Line("Local Nmap cache not found or unreadable at {}. Attempting to use system services file: {}",
                                   <<LOCAL_NMAP_CACHE_PATH, SYSTEM_SERVICES_PATH>>, "cyan")>>
                       ELSE << >>)
               /\ pc' = "read_system"
               /\ UNCHANGED <<content, registry_ports, forbidden_ports>>
          ELSE LET parsed == main_parse_services_content(outcome.text,
                                 "cached Nmap services list", cli.verbose)
               IN  /\ stdout' = stdout \o
                          (IF cli.verbose
                           THEN <<Line("Using cached Nmap services from {}",
                                       <<LOCAL_NMAP_CACHE_PATH>>, "cyan")>>
                           ELSE << >>)
                          \o parsed.stdout
                   /\ content' = outcome.text
                   /\ registry_ports' = parsed.ports
                   /\ forbidden_ports' = extend(forbidden_ports, parsed.ports)
                   /\ pc' = "lsof"
    /\ UNCHANGED <<cli, local_ports, available_ports, stderr, exit_code, excl, host>>

\* variant: an unreadable system services file returned as the run's error
ReadSystemServicesFatal ==
    /\ pc = "read_system"
    /\ trace' = Append(trace, "read_system_services_ports")
    /\ \E file \in ReadOutcomes :
          LET read == read_system_services_ports(file, cli.verbose)
          IN  /\ stdout' = stdout \o read.stdout
              /\ IF ~read.ok
                 THEN /\ stderr' = stderr \o
                             ErrorReport(read.error, << >>)
                      /\ exit_code' = "failure"
                      /\ pc' = "exit"
                      /\ UNCHANGED <<content, registry_ports, forbidden_ports>>
                 ELSE /\ content' = file.text
                      /\ registry_ports' = read.ports
                      /\ forbidden_ports' = extend(forbidden_ports, read.ports)
                      /\ pc' = "lsof"
                      /\ UNCHANGED <<stderr, exit_code>>
    /\ UNCHANGED <<cli, local_ports, available_ports, excl, host>>

\* read_system_services_ports: a failure prints two warnings and the run
\* goes on with the locally used ports only
ReadSystemServices ==
    /\ pc = "read_system"
    /\ trace' = Append(trace, "read_system_services_ports")
    /\ \E file \in ReadOutcomes :
          LET read == read_system_services_ports(file, cli.verbose)
          IN  /\ stdout' = stdout \o read.stdout
              /\ IF ~read.ok
                 THEN /\ stderr' = stderr \o
                             << Line("Warning: Could not read or parse system services file ({}): {}",
                                     <<SYSTEM_SERVICES_PATH, read.error>>, "yellow"),
                                Line("Proceeding with locally used ports only. Port suggestions might be less reliable.",
                                     << >>, "yellow") >>
                      /\ UNCHANGED <<content, registry_ports, forbidden_ports>>
                 ELSE /\ content' = file.text
                      /\ registry_ports' = read.ports
                      /\ forbidden_ports' = extend(forbidden_ports, read.ports)
                      /\ UNCHANGED stderr
    /\ pc' = "lsof"
    /\ UNCHANGED <<cli, local_ports, available_ports, exit_code, excl, host>>

\* match get_locally_used_ports: lsof that cannot be executed or exits with
\* a non-zero status returns the error; otherwise its ports are added
GetLocallyUsedPorts ==
    /\ pc = "lsof"
    /\ trace' = Append(trace, "get_locally_used_ports")
    /\ LET used == get_locally_used_ports(host.lsof, cli.verbose)
       IN  /\ stdout' = stdout \o used.stdout
           /\ IF ~used.ok
              THEN /\ stderr' = stderr \o
                          ErrorReport("Failed to get locally used ports. Cannot reliably find an available port.",
                                      used.error)
                   /\ exit_code' = "failure"
                   /\ pc' = "exit"
                   /\ UNCHANGED <<local_ports, forbidden_ports>>
              ELSE /\ local_ports' = used.ports
                   /\ forbidden_ports' = extend(forbidden_ports, used.ports)
                   /\ pc' = "search"
                   /\ UNCHANGED <<stderr, exit_code>>
    /\ UNCHANGED <<cli, content, registry_ports, available_ports, excl, host>>

\* the line `if cli.verbose` prints once the sources are collected
TotalCollected ==
    IF cli.verbose
    THEN <<Line("Total {} forbidden ports collected.",
                <<Cardinality(forbidden_ports)>>, "cyan")>>
    ELSE << >>

\* variant: the search made and reported whatever the requested number
SearchWithoutZeroCheck ==
    /\ pc = "search"
    /\ stdout' = stdout \o TotalCollected
    /\ available_ports' = main_find_available_ports(forbidden_ports,
                              cli.number_of_ports, cli.continuous)
    /\ trace' = Append(trace, "find_available_ports")
    /\ pc' = "report"
    /\ UNCHANGED <<cli, content, registry_ports, local_ports, forbidden_ports,
                   stderr, exit_code, excl, host>>

\* the number of collected ports (verbose); number_of_ports == 0 ends the
\* run; otherwise the warning about a block larger than the searchable
\* ports, and find_available_ports
Search ==
    /\ pc = "search"
    /\ IF cli.number_of_ports = 0
       THEN /\ stdout' = stdout \o TotalCollected \o
                   <<Line("\nNumber of ports requested is 0. No ports to find.", << >>, "yellow")>>
            /\ exit_code' = "success"
            /\ pc' = "exit"
            /\ UNCHANGED <<available_ports, trace>>
       ELSE /\ stdout' = stdout \o TotalCollected \o
                   (IF cli.continuous /\ cli.number_of_ports > 1
                       /\ TOTAL_SEARCHABLE_PORTS < cli.number_of_ports
                    THEN <<Line("\nWarning: Requested number of continuous ports ({}) is very large and might not be possible to find as it exceeds the total number of searchable ports ({}).",
                                <<cli.number_of_ports, TOTAL_SEARCHABLE_PORTS>>, "yellow")>>
                    ELSE << >>)
            /\ available_ports' = main_find_available_ports(forbidden_ports,
                                      cli.number_of_ports, cli.continuous)
            /\ trace' = Append(trace, "find_available_ports")
            /\ pc' = "report"
            /\ UNCHANGED exit_code
    /\ UNCHANGED <<cli, content, registry_ports, local_ports, forbidden_ports,
                   stderr, excl, host>>

\* the port lines of one `for port in available_ports` loop, in the colour
\* chosen for the run
PortLines(color) ==
    [i \in 1..Len(available_ports) |-> PortLine(available_ports[i], color)]

CouldNotFind ==
    Line("\nCould not find {} {}available port(s) in the checked ranges.",
         <<cli.number_of_ports, IF cli.continuous THEN "continuous " ELSE "">>, "red")

\* variant: every result that is not empty printed under the heading of a
\* full one
ReportAlwaysSuggested ==
    /\ pc = "report"
    /\ \E selected_port_color \in PORT_COLORS :
          stdout' =
              IF available_ports = << >>
              THEN Append(stdout, CouldNotFind)
              ELSE Append(stdout, Line("\nSuggested available port(s):", << >>, "green"))
                      \o PortLines(selected_port_color)
    /\ exit_code' = "success"
    /\ pc' = "exit"
    /\ UNCHANGED <<cli, content, registry_ports, local_ports, forbidden_ports,
                   available_ports, stderr, trace, excl, host>>

\* variant: an empty result returned as the run's error
ReportEmptyFails ==
    /\ pc = "report"
    /\ \E selected_port_color \in PORT_COLORS :
          IF available_ports = << >>
          THEN /\ stderr' = stderr \o ErrorReport("no available port", << >>)
               /\ exit_code' = "failure"
               /\ UNCHANGED stdout
          ELSE /\ stdout' = Append(stdout, Line("\nSuggested available port(s):", << >>, "green"))
                               \o PortLines(selected_port_color)
               /\ exit_code' = "success"
               /\ UNCHANGED stderr
    /\ pc' = "exit"
    /\ UNCHANGED <<cli, content, registry_ports, local_ports, forbidden_ports,
                   available_ports, trace, excl, host>>

\* the colour of the port lines chosen at random, the four arms that print
\* the result, then Ok(())
Report ==
    /\ pc = "report"
    /\ \E selected_port_color \in PORT_COLORS :
          stdout' =
              IF available_ports = << >>
              THEN Append(stdout, CouldNotFind)
              ELSE IF cli.continuous /\ Len(available_ports) < cli.number_of_ports
              THEN Append(stdout, Line("\nCould not find a continuous block of {} ports. Found {} available port(s) instead:",
                                       <<cli.number_of_ports, Len(available_ports)>>, "yellow"))
                      \o PortLines(selected_port_color)
              ELSE IF ~cli.continuous /\ Len(available_ports) < cli.number_of_ports
              THEN Append(stdout, Line("\nFound {} out of {} requested available port(s):",
                                       <<Len(available_ports), cli.number_of_ports>>, "yellow"))
                      \o PortLines(selected_port_color)
              ELSE Append(stdout, Line("\nSuggested available port(s):", << >>, "green"))
                      \o PortLines(selected_port_color)
    /\ exit_code' = "success"
    /\ pc' = "exit"
    /\ UNCHANGED <<cli, content, registry_ports, local_ports, forbidden_ports,
                   available_ports, stderr, trace, excl, host>>

Next ==
    \/ ParseArgs
    \/ FetchRemoteNmap
    \/ SaveNmapCache
    \/ ReadCache
    \/ ReadSystemServices
    \/ GetLocallyUsedPorts
    \/ Search
    \/ Report

Spec == Init /\ [][Next]_vars

(***************************************************************************)
(* Properties of the driver (specification Spec)                           *)
(***************************************************************************)
Last(seq) == seq[Len(seq)]

Called(name) == \E i \in 1..Len(trace) : trace[i] = name

Printed(text) == \E i \in 1..Len(stdout) : stdout[i].text = text

Warned(text) == \E i \in 1..Len(stderr) : stderr[i].text = text

\* main returned an Err of the given context
ReturnedError(context) ==
    \E i \in 1..Len(stderr) :
        /\ stderr[i].text = "Error: {}"
        /\ stderr[i].args = <<context>>

\* the command line asks for a run and holds only arguments struct Cli has
ArgsAccepted == cli.request = "run" /\ ~cli.force

\* the ports of the port lines printed so far
PrintedPorts ==
    {stdout[i].port : i \in {j \in 1..Len(stdout) : "port" \in DOMAIN stdout[j]}}

\* C1: every port the driver prints lies in 1024..65535 and is neither a
\* port parsed from the registry source used in the run nor a locally
\* listening port collected in the run.
C1_PrintedPortsAreSafe ==
    \A p \in PrintedPorts :
        /\ p \in 1024..65535
        /\ p \notin registry_ports
        /\ p \notin local_ports

\* a run that printed a port after skipping a registry port and a listening
\* port below it
C1_Witness ==
    /\ pc = "exit"
    /\ exit_code = "success"
    /\ \E p \in PrintedPorts :
          /\ \E r \in registry_ports \ local_ports : 1024 <= r /\ r < p
          /\ \E l \in local_ports \ registry_ports : 1024 <= l /\ l < p

\* the scanner of the host fails: lsof cannot be executed or exits non-zero
ScannerFails == host.lsof.status # "ok"

\* C9, first half: without --force a run on a host whose scanner fails ends
\* with a failure exit, without a search and without a printed port.
C9_FatalByDefault ==
    (pc = "exit" /\ ScannerFails /\ ArgsAccepted) =>
        /\ exit_code = "failure"
        /\ ~Called("find_available_ports")
        /\ PrintedPorts = {}

\* C9: on a host whose scanner fails the run ends with a failure exit, no
\* search made and no port printed, unless --force is given, and with
\* --force it goes on and ends with a success exit.
C9_ForceOverride ==
    (pc = "exit" /\ ScannerFails /\ cli.request = "run") =>
        IF cli.force THEN exit_code = "success"
        ELSE /\ exit_code = "failure"
             /\ ~Called("find_available_ports")
             /\ PrintedPorts = {}

\* C10 as stated: no run ends with a failure exit because a registry source
\* could not be read or reached, whatever the source-selection flag: a
\* failure exit of a run that called a collaborator follows the scanner.
C10_RegistryNeverFatal ==
    (pc = "exit" /\ exit_code = "failure" /\ trace # << >>) =>
        Last(trace) = "get_locally_used_ports"

FetchFailed ==
    ReturnedError("Failed to fetch remote Nmap services as requested by --universal flag.")

SystemFileUnreadable ==
    Warned("Warning: Could not read or parse system services file ({}): {}")

CacheNotSaved ==
    Warned("Warning: Failed to save fetched Nmap services to cache at {}: {}")

\* C10 amended: without --universal an unreadable cache leads to the system
\* services file and an unreadable system services file to two warnings,
\* an empty registry set and the scanner, never to a failure exit; with
\* --universal a failed cache write only warns, and a failed fetch ends the
\* run with a failure exit before any other collaborator is called.
C10_RegistryFallback ==
    /\ (pc = "exit" /\ exit_code = "failure" /\ trace # << >>) =>
          \/ Last(trace) = "get_locally_used_ports"
          \/ cli.universal /\ FetchFailed /\ trace = <<"fetch_remote_nmap_services">>
    /\ FetchFailed => pc = "exit" /\ exit_code = "failure" /\ cli.universal
    /\ (~cli.universal /\ trace # << >>) =>
          /\ trace[1] = "read_cache"
          /\ pc = "read_system" => trace = <<"read_cache">>
          /\ Called("read_system_services_ports") =>
                /\ pc \in {"lsof", "search", "report", "exit"}
                /\ SubSeq(trace, 1, 2) = <<"read_cache", "read_system_services_ports">>
          /\ SystemFileUnreadable =>
                /\ registry_ports = {}
                /\ Warned("Proceeding with locally used ports only. Port suggestions might be less reliable.")
                /\ pc \in {"search", "report", "exit"} => Called("get_locally_used_ports")
    /\ CacheNotSaved =>
          /\ pc \in {"lsof", "search", "report", "exit"}
          /\ (pc = "exit" /\ exit_code = "failure") => Last(trace) = "get_locally_used_ports"

\* a run without a readable cache or system services file that went on to
\* the scanner and the search and printed ports
C10_Witness ==
    /\ pc = "exit"
    /\ exit_code = "success"
    /\ ~cli.universal
    /\ SystemFileUnreadable
    /\ trace = <<"read_cache", "read_system_services_ports",
                 "get_locally_used_ports", "find_available_ports">>
    /\ PrintedPorts # {}
    /\ local_ports # {}

ZeroRequested == cli.number_of_ports = 0

NoPortsToFind ==
    Line("\nNumber of ports requested is 0. No ports to find.", << >>, "yellow")

\* the texts of the lines printed on the standard output, in order
PrintedTexts == [i \in 1..Len(stdout) |-> stdout[i].text]

\* C11 as stated: every run that requests 0 ports and is given arguments
\* the program knows ends with a success exit, having printed "Number of
\* ports requested is 0. No ports to find.", no port line, and made no search.
C11_ZeroAlwaysSucceeds ==
    (pc = "exit" /\ ZeroRequested /\ ArgsAccepted) =>
        /\ exit_code = "success"
        /\ Printed(NoPortsToFind.text)
        /\ PrintedPorts = {}
        /\ ~Called("find_available_ports")

\* C11 amended: a run that requests 0 ports never calls the search and
\* never prints a port; the number is looked at after the data sources, so
\* the run ends with a success exit and the last output "Number of ports
\* requested is 0. No ports to find." (the only output without --verbose)
\* exactly when the scanner answered, and with a failure exit and without
\* that message (without any output unless --verbose) when the remote fetch
\* or the scanner failed.
C11_ZeroCount ==
    (ZeroRequested /\ cli.request = "run") =>
        /\ ~Called("find_available_ports")
        /\ available_ports = << >>
        /\ PrintedPorts = {}
        /\ pc # "report"
        /\ pc = "exit" =>
              /\ exit_code = "success" <=>
                    (Called("get_locally_used_ports") /\ ~ScannerFails)
              /\ exit_code = "success" =>
                    /\ Last(PrintedTexts) = NoPortsToFind.text
                    /\ ~cli.verbose => PrintedTexts = <<NoPortsToFind.text>>
              /\ exit_code # "success" =>
                    /\ ~Printed(NoPortsToFind.text)
                    /\ ~cli.verbose => stdout = << >>
                    /\ cli.force \/ FetchFailed \/ ScannerFails
        /\ pc # "exit" =>
              /\ ~Printed(NoPortsToFind.text)
              /\ ~cli.verbose => stdout = << >>

\* a run that requested 0 ports, collected registry and listening ports, and
\* ended with the message and a success exit
C11_Witness ==
    /\ ZeroRequested
    /\ pc = "exit"
    /\ exit_code = "success"
    /\ PrintedTexts = <<NoPortsToFind.text>>
    /\ registry_ports # {}
    /\ local_ports # {}
    /\ trace = <<"read_cache", "get_locally_used_ports">>

(***************************************************************************)
(* Harness of the driver's search and report steps: main() at line 296,    *)
(* the data sources collected.  The cache held a registry whose ports are  *)
(* the exclusion set described by excl (its text is not kept: content is   *)
(* left empty), lsof answered with no listening port.                      *)
(***************************************************************************)
\* what a verbose run has printed when it reaches line 293 after a readable
\* cache of the given number of ports and an empty answer of lsof
CollectedStdout(verbose, count) ==
    IF verbose
    THEN <<Line("Using cached Nmap services from {}", <<LOCAL_NMAP_CACHE_PATH>>, "cyan"),
           Line("Parsing services data from {}...", <<"cached Nmap services list">>, "cyan"),
           Line("Found {} distinct TCP ports from {}.",
                <<count, "cached Nmap services list">>, "cyan")>>
         \o get_locally_used_ports(NoHost.lsof, TRUE).stdout
    ELSE << >>

\* the exclusion sets of the harness: no forbidden port, one forbidden port,
\* or an interval of forbidden ports that leaves few ports of the tiers free
CollectedIntervals == { <<0, U16_MAX>>,
                        <<TierAStart, TierBEnd>>,
                        <<TierAStart, TierBEnd - 1>>,
                        <<TierAStart, TierBEnd - 2>>,
                        <<TierAStart + 1, TierBEnd>>,
                        <<TierAStart + 2, TierBEnd>>,
                        <<TierAStart + 1, TierBEnd - 1>>,
                        <<TierAStart, TierAEnd>>,
                        <<TierAStart, TierAEnd - 1>>,
                        <<TierAStart + 1, TierAEnd>> }

CollectedSets ==
    {e \in LightSets : Cardinality(e.toggles) <= 1}
        \cup {[lo |-> b[1], hi |-> b[2], toggles |-> {}] : b \in CollectedIntervals}

\* ExclusionSet(e) for the sets of the harness
CollectedPorts(e) == IF e.lo > e.hi THEN e.toggles ELSE e.lo..e.hi

CollectedInit ==
    /\ pc = "search"
    /\ excl \in CollectedSets
    /\ \E n \in (0..MaxCount) \cup {TierAEnd - TierAStart + 2, U16_MAX},
          c \in BOOLEAN, d \in BOOLEAN, v \in BOOLEAN :
          /\ cli = [NoCli EXCEPT !.number_of_ports = n, !.continuous = c,
                                 !.docker_format = d, !.verbose = v]
          \* a non-continuous search for a large count returns every free
          \* port: kept to the exclusion sets that leave few ports free
          /\ (~c /\ n > MaxCount) => (excl.lo = TierAStart /\ excl.hi = TierBEnd)
          /\ n > MaxCount => ~d
    /\ content = << >>
    /\ registry_ports = CollectedPorts(excl)
    /\ local_ports = {}
    /\ forbidden_ports = CollectedPorts(excl)
    /\ available_ports = << >>
    /\ stdout = CollectedStdout(cli.verbose, Cardinality(CollectedPorts(excl)))
    /\ stderr = << >>
    /\ exit_code = "running"
    /\ trace = <<"read_cache", "get_locally_used_ports">>
    /\ host = NoHost

CollectedNext ==
    \/ Search
    \/ Report

SpecCollected == CollectedInit /\ [][CollectedNext]_vars

(***************************************************************************)
(* Properties of the search and report steps (specification SpecCollected) *)
(***************************************************************************)
IsPortLine(l) == "port" \in DOMAIN l

IsMessage(l) == "port" \notin DOMAIN l

\* the port lines and the other lines printed so far, in order
PrintedPortLines == SelectSeq(stdout, IsPortLine)

PrintedMessages == SelectSeq(stdout, IsMessage)

Suggested == "\nSuggested available port(s):"

FoundOutOf == "\nFound {} out of {} requested available port(s):"

ContinuousShortfall ==
    "\nCould not find a continuous block of {} ports. Found {} available port(s) instead:"

\* the lines that name a shortfall
IsShortfall(l) ==
    \/ l.text = CouldNotFind.text
    \/ l.text = ContinuousShortfall
    \/ l.text = FoundOutOf

\* C12: a run that made the search prints the heading "Suggested available
\* port(s):" iff the search returned exactly the requested number of ports,
\* followed by exactly one line per returned port, in order; a shorter
\* result is printed under a shortfall message instead ("Could not find" for
\* the empty result, else a message with the found and the requested count)
\* and never under the heading.
C12_HeadingIffFull ==
    (pc = "exit" /\ Called("find_available_ports")) =>
        LET found == Len(available_ports)
            last == Last(PrintedMessages)
        IN  /\ cli.number_of_ports >= 1
            /\ found <= cli.number_of_ports
            /\ Printed(Suggested) <=> found = cli.number_of_ports
            /\ Len(PrintedPortLines) = found
            /\ \A i \in 1..found : PrintedPortLines[i].port = available_ports[i]
            /\ \A i \in 1..Len(stdout) :
                  IsPortLine(stdout[i]) => i > Len(PrintedMessages)
            /\ found = cli.number_of_ports =>
                  /\ last.text = Suggested
                  /\ \A i \in 1..Len(stdout) : ~IsShortfall(stdout[i])
            /\ found < cli.number_of_ports =>
                  /\ IsShortfall(last)
                  /\ IF found = 0
                     THEN last.text = CouldNotFind.text
                             /\ last.args[1] = cli.number_of_ports
                     ELSE IF cli.continuous
                     THEN last.text = ContinuousShortfall
                             /\ last.args = <<cli.number_of_ports, found>>
                     ELSE last.text = FoundOutOf
                             /\ last.args = <<found, cli.number_of_ports>>

\* a run that asked for more ports than were free and printed the ports it
\* found under "Found {} out of {}"
C12_Witness ==
    /\ pc = "exit"
    /\ ~cli.continuous
    /\ Len(available_ports) >= 1
    /\ Len(available_ports) < cli.number_of_ports
    /\ Printed(FoundOutOf)
    /\ Len(PrintedPortLines) = Len(available_ports)
    /\ ~Printed(Suggested)

\* C13: once the data sources are collected the run ends with a success
\* exit and nothing on the standard error, whatever the search returns (all
\* the requested ports, some of them, or none); the search itself cannot
\* fail: in no tier does the last window start plus the count pass the
\* largest u16, so `p_start + i` never overflows.
C13_ExhaustionIsNotAnError ==
    /\ pc = "exit" =>
          /\ exit_code = "success"
          /\ stderr = << >>
          /\ cli.number_of_ports >= 1 =>
                /\ Called("find_available_ports")
                /\ Len(PrintedMessages) >= 1
    /\ pc # "exit" => exit_code = "running"
    /\ \A k \in 1..Len(main_port_ranges) :
          LET starts == main_window_starts(main_port_ranges[k], cli.number_of_ports)
          IN  (cli.number_of_ports >= 1 /\ starts # {}) =>
                  main_effective_end_search(main_port_ranges[k][2], cli.number_of_ports)
                      + (cli.number_of_ports - 1) <= U16_MAX

\* a run whose search found every port of both tiers forbidden and that
\* ended with "Could not find" and a success exit
C13_Witness ==
    /\ pc = "exit"
    /\ exit_code = "success"
    /\ cli.number_of_ports >= 1
    /\ FreeCount = 0
    /\ available_ports = << >>
    /\ Printed(CouldNotFind.text)

\* C17: in a continuous run for N >= 1 ports the search returns N ports with
\* unit step or none, and the driver prints either the heading and the N
\* ports or "Could not find {} {}available port(s)" and no port; the message
\* "Could not find a continuous block of N ports. Found M available port(s)
\* instead" is never printed.
C17_NoContinuousPartial ==
    (cli.continuous /\ cli.number_of_ports >= 1) =>
        /\ ~Printed(ContinuousShortfall)
        /\ Len(available_ports) \in {0, cli.number_of_ports}
        /\ \A i \in 2..Len(available_ports) :
              available_ports[i] = available_ports[i - 1] + 1
        /\ pc = "exit" =>
              IF available_ports = << >>
              THEN /\ PrintedPortLines = << >>
                   /\ Last(stdout).text = CouldNotFind.text
                   /\ Last(stdout).args = <<cli.number_of_ports, "continuous ">>
              ELSE /\ Last(PrintedMessages).text = Suggested
                   /\ Len(PrintedPortLines) = cli.number_of_ports

\* a continuous run for two or more ports with free ports left but no free
\* block, reported as the empty result
C17_Witness ==
    /\ pc = "exit"
    /\ cli.continuous
    /\ cli.number_of_ports \in 2..MaxCount
    /\ FreeCount >= 2
    /\ available_ports = << >>
    /\ PrintedPortLines = << >>
    /\ Printed(CouldNotFind.text)

(***************************************************************************)
(* The order of the tiers                                                  *)
(***************************************************************************)
\* C14: the caller chooses the order of the tiers: left at the default, a
\* non-continuous search returns a free port of 1024..49151 before any port
\* of 49152..65535, and with Tier B first chosen it returns a free port of
\* 49152..65535 before any port of 1024..49151.
C14_TierOrderSelectable ==
    (Returned /\ ~cli.continuous /\ cli.number_of_ports >= 1) =>
        LET F == Excluded
        IN  IF cli.tier_b_first
            THEN (\E p \in ProbePorts \cap TierB : p \notin F) =>
                     /\ available_ports # << >>
                     /\ available_ports[1] \in TierB
            ELSE (\E p \in ProbePorts \cap TierA : p \notin F) =>
                     /\ available_ports # << >>
                     /\ available_ports[1] \in TierA

(***************************************************************************)
(* Harness of the live-usage adapter: lsof exits with status 0 and prints  *)
(* up to MaxLines lines of a pool, joined by "\n", or fails; the action    *)
(* applies get_locally_used_ports, prints what it prints and keeps the Err *)
(* it returns as a line of stderr.                                         *)
(***************************************************************************)
LsofLinePool == {
    \* n 1 TCP *:80 (LISTEN)
    <<110, 32, 49, 32, 84, 67, 80, 32, 42, 58, 56, 48, 32, 40, 76, 73, 83, 84, 69, 78, 41>>,
    \* n 2 TCP 127.0.0.1:8080 (LISTEN)
    <<110, 32, 50, 32, 84, 67, 80, 32, 49, 50, 55, 46, 48, 46, 48, 46, 49, 58, 56, 48, 56, 48, 32, 40, 76, 73, 83, 84, 69, 78, 41>>,
    \* n 3 TCP [::1]:1029 (LISTEN)
    <<110, 32, 51, 32, 84, 67, 80, 32, 91, 58, 58, 49, 93, 58, 49, 48, 50, 57, 32, 40, 76, 73, 83, 84, 69, 78, 41>>,
    \* x *:65535(LISTEN)
    <<120, 32, 42, 58, 54, 53, 53, 51, 53, 40, 76, 73, 83, 84, 69, 78, 41>>,
    \* x *:65536 (LISTEN)
    <<120, 32, 42, 58, 54, 53, 53, 51, 54, 32, 40, 76, 73, 83, 84, 69, 78, 41>>,
    \* x *:99999 (LISTEN)
    <<120, 32, 42, 58, 57, 57, 57, 57, 57, 32, 40, 76, 73, 83, 84, 69, 78, 41>>,
    \* x *:123456 (LISTEN)
    <<120, 32, 42, 58, 49, 50, 51, 52, 53, 54, 32, 40, 76, 73, 83, 84, 69, 78, 41>>,
    \* x *:00080 (LISTEN)
    <<120, 32, 42, 58, 48, 48, 48, 56, 48, 32, 40, 76, 73, 83, 84, 69, 78, 41>>,
    \* x *:000080 (LISTEN)
    <<120, 32, 42, 58, 48, 48, 48, 48, 56, 48, 32, 40, 76, 73, 83, 84, 69, 78, 41>>,
    \* x *:443 <TAB> (LISTEN)
    <<120, 32, 42, 58, 52, 52, 51, 32, 9, 32, 40, 76, 73, 83, 84, 69, 78, 41>>,
    \* x *:22 (LISTEN) 
    <<120, 32, 42, 58, 50, 50, 32, 40, 76, 73, 83, 84, 69, 78, 41, 32>>,
    \* x *:80->*:1030 (ESTABLISHED)
    <<120, 32, 42, 58, 56, 48, 45, 62, 42, 58, 49, 48, 51, 48, 32, 40, 69, 83, 84, 65, 66, 76, 73, 83, 72, 69, 68, 41>>,
    \* COMMAND PID USER
    <<67, 79, 77, 77, 65, 78, 68, 32, 80, 73, 68, 32, 85, 83, 69, 82>>,
    << >>,
    \* x *:25 (listen)
    <<120, 32, 42, 58, 50, 53, 32, 40, 108, 105, 115, 116, 101, 110, 41>>,
    \* x 1031 (LISTEN)
    <<120, 32, 49, 48, 51, 49, 32, 40, 76, 73, 83, 84, 69, 78, 41>>,
    \* x :(LISTEN)
    <<120, 32, 58, 40, 76, 73, 83, 84, 69, 78, 41>>,
    \* x *:70:71 (LISTEN)
    <<120, 32, 42, 58, 55, 48, 58, 55, 49, 32, 40, 76, 73, 83, 84, 69, 78, 41>>,
    \* x *:+72 (LISTEN)
    <<120, 32, 42, 58, 43, 55, 50, 32, 40, 76, 73, 83, 84, 69, 78, 41>>,
    \* x *:73 (LISTEN)<CR>
    <<120, 32, 42, 58, 55, 51, 32, 40, 76, 73, 83, 84, 69, 78, 41, 13>>,
    \* (LISTEN)
    <<40, 76, 73, 83, 84, 69, 78, 41>>,
    \* x *:74 (LISTEN) (LISTEN)
    <<120, 32, 42, 58, 55, 52, 32, 40, 76, 73, 83, 84, 69, 78, 41, 32, 40, 76, 73, 83, 84, 69, 78, 41>>,
    \* x *:81<U+000B><U+00A0>(LISTEN)
    <<120, 32, 42, 58, 56, 49, 11, 160, 40, 76, 73, 83, 84, 69, 78, 41>>,
    \* x *:8<U+0663> (LISTEN)
    <<120, 32, 42, 58, 56, 1635, 32, 40, 76, 73, 83, 84, 69, 78, 41>> }

LsofTexts == {JoinLines(ls) : ls \in UNION {[1..k -> LsofLinePool] : k \in 0..MaxLines}}

LsofInit ==
    /\ pc = "lsof_call"
    /\ \/ \E t \in LsofTexts : host = [lsof |-> LsofOk(t)]
       \/ host \in [lsof : {o \in LsofOutcomes : o.status # "ok"}]
    /\ \E v \in BOOLEAN : cli = [NoCli EXCEPT !.verbose = v]
    /\ content = << >>
    /\ registry_ports = {}
    /\ local_ports = {}
    /\ forbidden_ports = {}
    /\ available_ports = << >>
    /\ stdout = << >>
    /\ stderr = << >>
    /\ exit_code = "running"
    /\ trace = << >>
    /\ excl = [lo |-> 1, hi |-> 0, toggles |-> {}]

LsofCall ==
    /\ pc = "lsof_call"
    /\ LET used == get_locally_used_ports(host.lsof, cli.verbose)
       IN  /\ stdout' = stdout \o used.stdout
           /\ IF used.ok
              THEN /\ local_ports' = used.ports
                   /\ pc' = "lsof_ret"
                   /\ UNCHANGED stderr
              ELSE /\ stderr' = stderr \o ChainLines(used.error, 1)
                   /\ pc' = "lsof_err"
                   /\ UNCHANGED local_ports
    /\ UNCHANGED <<cli, content, registry_ports, forbidden_ports, available_ports,
                   exit_code, trace, excl, host>>

LsofNext == LsofCall

SpecLsof == LsofInit /\ [][LsofNext]_vars

(***************************************************************************)
(* Properties of get_locally_used_ports (specification SpecLsof)           *)
(***************************************************************************)
\* the places <<i, j>> of a line where a ':' at i is followed by the digits
\* i+1..j, 1 to 5 of them, then only whitespace, then "(LISTEN)" and the end
\* of the line
ListenEndings(line) ==
    LET m == Len(line) - Len(LISTEN_MARKER)
    IN  {r \in (1..Len(line)) \X (1..Len(line)) :
            /\ line[r[1]] = 58
            /\ r[2] - r[1] \in 1..5
            /\ \A h \in (r[1] + 1)..r[2] : IsAsciiDigit(line[h])
            /\ r[2] <= m
            /\ \A h \in (r[2] + 1)..m : line[h] \in White_Space
            /\ \A h \in 1..Len(LISTEN_MARKER) : line[m + h] = LISTEN_MARKER[h]}

\* the ports one line of the scanner output stands for
ListenPorts(line) ==
    {DecimalValue(SubSeq(line, r[1] + 1, r[2])) : r \in ListenEndings(line)}
        \cap (0..65535)

ScannerLines == lines(host.lsof.text)

\* C15: the live-usage adapter returns exactly the ports p for which some
\* line of the scanner output ends with ':', 1 to 5 decimal digits, optional
\* whitespace and "(LISTEN)", the digits denoting p <= 65535; every other
\* line, a value above 65535 and a run of more than 5 digits contribute
\* nothing.
C15_ListenExactSet ==
    pc = "lsof_ret" =>
        local_ports = UNION {ListenPorts(ScannerLines[i]) : i \in 1..Len(ScannerLines)}

\* an output of a line that yields a port and a line whose digits are too
\* many or too large
C15_Witness ==
    /\ pc = "lsof_ret"
    /\ Cardinality(local_ports) = 1
    /\ Len(ScannerLines) = 2
    /\ \E i \in 1..2 :
          /\ ListenPorts(ScannerLines[i]) = {}
          /\ \E c \in 1..Len(ScannerLines[i]) :
                /\ ScannerLines[i][c] = 58
                /\ Len(ScannerLines[i]) >= c + 5
                /\ \A h \in (c + 1)..(c + 5) : IsAsciiDigit(ScannerLines[i][h])

(***************************************************************************)
(* The order of the driver's steps (specification Spec)                    *)
(***************************************************************************)
IsPrefix(s, t) == Len(s) <= Len(t) /\ s = SubSeq(t, 1, Len(s))

\* the collaborators of a default run, in order: with a readable cache, and
\* with the system services file in its place
DefaultOrders ==
    { <<"read_cache", "get_locally_used_ports", "find_available_ports">>,
      <<"read_cache", "read_system_services_ports", "get_locally_used_ports",
        "find_available_ports">> }

\* C16: without --universal the cache is read first and the system services
\* file only when the cache gave nothing to parse; no fetch and no cache
\* write are made; the scanner is called after the registry step and before
\* the search; and in every run the registry ports of the exclusion set are
\* those of a single source, the text last read.
C16_DefaultOrder ==
    /\ ~cli.universal =>
          /\ \E o \in DefaultOrders : IsPrefix(trace, o)
          /\ ~Called("fetch_remote_nmap_services")
          /\ ~Called("save_nmap_cache")
          /\ pc = "read_system" =>
                /\ trace = <<"read_cache">>
                /\ content = << >>
                /\ registry_ports = {}
                /\ forbidden_ports = {}
    /\ pc \in {"search", "report"} => Called("get_locally_used_ports")
    /\ (pc = "exit" /\ ~cli.universal /\ ArgsAccepted) => Called("get_locally_used_ports")
    /\ Called("find_available_ports") =>
          /\ Len(trace) >= 3
          /\ trace[Len(trace) - 1] = "get_locally_used_ports"
          /\ trace[Len(trace) - 2] \in {"read_cache", "read_system_services_ports",
                                        "save_nmap_cache"}
    /\ registry_ports = IF pc = "save_cache" THEN {}
                        ELSE main_parse_services_content(content, "", FALSE).ports
    /\ forbidden_ports =
          IF Called("get_locally_used_ports") /\ ~ScannerFails
          THEN registry_ports \cup local_ports
          ELSE registry_ports

\* a default run whose cache was unreadable, whose system services file gave
\* registry ports, and that went on to the scanner and the search
C16_Witness ==
    /\ ~cli.universal
    /\ pc = "exit"
    /\ exit_code = "success"
    /\ trace = <<"read_cache", "read_system_services_ports",
                 "get_locally_used_ports", "find_available_ports">>
    /\ ~SystemFileUnreadable
    /\ registry_ports # {}
    /\ local_ports \ registry_ports # {}

(***************************************************************************)
(* The library functions and the binary's copies: the harnesses of         *)
(* find_available_ports and parse_services_content taken together          *)
(***************************************************************************)
BothInit ==
    \/ FindInit /\ ~cli.tier_b_first
    \/ ParseInit

BothNext ==
    \/ FindCall
    \/ ParseCall

SpecBoth == BothInit /\ [][BothNext]_vars

\* C18: on every exclusion set, count and contiguity flag
\* find_available_ports of main.rs returns the sequence that
\* find_available_ports of lib.rs returns, and on every text
\* parse_services_content of main.rs returns the set, and prints the lines,
\* that parse_services_content of lib.rs returns and prints.
C18_LibMainEquivalent ==
    /\ pc = "find_ret" =>
          LET F == Excluded
          IN  available_ports =
                  main_find_available_ports(F, cli.number_of_ports, cli.continuous)
    /\ pc = "parse_ret" =>
          LET parsed == main_parse_services_content(content, host.source_description,
                                                    cli.verbose)
          IN  /\ registry_ports = parsed.ports
              /\ stdout = parsed.stdout

\* a continuous search that both functions answer with a block of Tier B,
\* Tier A holding no free block
C18_Witness ==
    /\ pc = "find_ret"
    /\ cli.continuous
    /\ cli.number_of_ports >= 2
    /\ available_ports # << >>
    /\ available_ports[1] \in TierB
    /\ LET F == Excluded
       IN  /\ \E p \in ProbePorts \cap TierA : p \notin F
           /\ main_find_available_ports(F, cli.number_of_ports, TRUE) = available_ports

====
